---- MODULE Spec2Model ----
(***************************************************************************)
(* claude-engineer-rs: the conversation store (conversation_manager.rs)    *)
(* and the agent loop (main.rs: main, Claude::chat_with_claude and the     *)
(* functions it calls).                                                    *)
(*                                                                         *)
(* SpecStore drives a ConversationManager through arbitrary sequences of   *)
(* its public operations.  Spec runs main(): sessions of chat_with_claude  *)
(* against a remote chat service and a tool executor whose answers are     *)
(* chosen nondeterministically.  SpecPatch runs one call of               *)
(* ToolExecutor::apply_edits (tools.rs) on a small file.                   *)
(* SpecTools runs ToolExecutor::execute_tool calls, edit_and_apply         *)
(* included, on a file system of one file.                                 *)
(* SpecExtract applies ToolExecutor::parse_search_replace_blocks to texts.  *)
(***************************************************************************)
EXTENDS Integers, Sequences, FiniteSets, TLC

VARIABLES
    conversation_manager, \* Claude.conversation_manager: [history, current, max_history_size]
    inserted,             \* ghost: every message handed to add_to_history, in call order
    last_call,            \* ghost: the last store operation called, the store before it, its result
    pc,                   \* position of main / chat_with_claude
    prompt,               \* main's `prompt`
    iteration,            \* main's `iteration`
    round,                \* which process_content_response / ask_claude_tool pair of chat_with_claude runs
    content,              \* the content items process_content_response iterates over
    idx,                  \* index of the next item of `content`
    response_text,        \* process_content_response's local `response_text`
    tool_results,         \* process_content_response's local `tool_results`
    outer_text,           \* chat_with_claude's first binding of `response_text` (line 239)
    inner_text,           \* chat_with_claude's shadowing binding of `response_text` (line 246)
    chat_result,          \* what chat_with_claude returned to main
    sent,                 \* ghost: the requests sent in this session, in order
    received,             \* ghost: the responses received in this session, in order
    executed,             \* ghost: the tool executions of this session, in order
    slept_secs,           \* ghost: seconds chat_with_claude slept in this session
    rate_limited,         \* ghost: rate-limit failures delivered in this session
    p_pc,                 \* position of an apply_edits call
    file,                 \* the content of the file at file_path on disk
    original_content,     \* apply_edits' argument `original_content`
    edit_instructions,    \* apply_edits' argument `edit_instructions`
    original_content_lines, \* apply_edits' local `original_content_lines`
    edited_lines,         \* apply_edits' local `edited_lines`
    edit_index,           \* 1-based position of the instruction the loop takes next (i + 1)
    changes_made,         \* apply_edits' local `changes_made`
    failed_edits,         \* apply_edits' local `failed_edits`
    apply_result,         \* what apply_edits returned
    edit_log,             \* ghost: one record per finished iteration of apply_edits' loop
    t_pc,                 \* position of an execute_tool call (tools.rs)
    file_exists,          \* whether the file at path "a.txt" exists
    folders,              \* the folders that exist
    call_name,            \* execute_tool's argument `tool_name`
    call_input,           \* execute_tool's argument `tool_input`: the arguments present
    call_result,          \* what execute_tool returned
    handler,              \* ghost: the handler the call has run, "none" if it ran none
    attempt,              \* edit_and_apply's loop variable `attempt`
    instructions,         \* edit_and_apply's argument `instructions`
    passes,               \* ghost: generate/apply passes of the current tool call
    code_editor_memory,   \* ToolExecutor.code_editor_memory
    code_editor_files,    \* ToolExecutor.code_editor_files
    executor_current,     \* ToolExecutor.conversation_manager.current
    x_pc,                 \* position of a parse_search_replace_blocks call
    x_segments,           \* ghost: the pieces the text was put together from
    x_text,               \* parse_search_replace_blocks' argument `text`
    x_blocks,             \* what parse_search_replace_blocks returned
    d_pc,                 \* position of a generate_and_apply_diff call
    d_original,           \* generate_and_apply_diff's argument `original_content`
    d_new_content,        \* generate_and_apply_diff's argument `new_content`
    d_input,              \* the line the user typed at the prompt
    d_result              \* ghost: the outcome of the generate_and_apply_diff call

patch_vars == <<p_pc, file, original_content, edit_instructions, original_content_lines,
                edited_lines, edit_index, changes_made, failed_edits, apply_result,
                edit_log>>
executor_vars == <<code_editor_memory, code_editor_files, executor_current>>
tools_vars == <<t_pc, file_exists, folders, call_name, call_input, call_result, handler,
                attempt, instructions, passes, executor_vars>>
extract_vars == <<x_pc, x_segments, x_text, x_blocks>>
diff_vars == <<d_pc, d_original, d_new_content, d_input, d_result>>
store_vars == <<conversation_manager, inserted, last_call>>
store_ghost == <<inserted, last_call, patch_vars, tools_vars, extract_vars, diff_vars>>
main_vars == <<prompt, iteration>>
frame_vars == <<round, content, idx, response_text, tool_results, outer_text, inner_text>>
ghost_vars == <<sent, received, executed, slept_secs, rate_limited>>
agent_vars == <<pc, prompt, iteration, round, content, idx, response_text, tool_results,
                outer_text, inner_text, chat_result, sent, received, executed,
                slept_secs, rate_limited, patch_vars, tools_vars, extract_vars,
                diff_vars>>
agent_only == <<store_vars, pc, main_vars, frame_vars, chat_result, ghost_vars,
                extract_vars, diff_vars>>
chat_vars == <<agent_only, tools_vars>>
vars == <<conversation_manager, inserted, last_call, pc, prompt, iteration, round, content,
          idx, response_text, tool_results, outer_text, inner_text, chat_result,
          sent, received, executed, slept_secs, rate_limited, p_pc, file,
          original_content, edit_instructions, original_content_lines, edited_lines,
          edit_index, changes_made, failed_edits, apply_result, edit_log, t_pc,
          file_exists, folders, call_name, call_input, call_result, handler, attempt,
          instructions,
          passes, code_editor_memory, code_editor_files, executor_current, x_pc,
          x_segments, x_text, x_blocks, d_pc, d_original, d_new_content, d_input,
          d_result>>

(***************************************************************************)
(* Bounds of the model.                                                    *)
(***************************************************************************)
MaxCap == 2        \* SpecStore: largest max_history_size tried (0..MaxCap)
MaxCur == 2        \* SpecStore: add_to_current is called while current is shorter
MaxInserted == 4   \* SpecStore: add_to_history is called at most this often
MaxItems == 2      \* Spec: content items per response
MaxRetries == 2    \* Spec: rate-limit failures of the initial request per session
MaxSessions == 2   \* Spec: sessions main runs
MaxIterations == 26 \* SpecMain: sessions main runs when a session is one step

(***************************************************************************)
(* Program constants.                                                      *)
(***************************************************************************)
CONTINUATION_EXIT_PHRASE == "AUTOMODE_COMPLETE"
MAX_CONTINUATION_ITERATIONS == 25
HistoryCapacity == 1000
RetryDelaySecs == 5
RateLimitPhrase == "Too many Requests. You have been rate limited."

(***************************************************************************)
(* Messages (conversation_manager.rs Message, main.rs MessageContent).     *)
(***************************************************************************)
Text(s) == [variant |-> "Text", text |-> s]
ToolUseAssistantContent(blocks) == [variant |-> "ToolUseAssistant", blocks |-> blocks]
ToolUseUserContent(blocks) == [variant |-> "ToolUseUser", blocks |-> blocks]
Message(role, c) == [role |-> role, content |-> c]

Min(a, b) == IF a <= b THEN a ELSE b
LastN(s, n) == SubSeq(s, Len(s) - Min(n, Len(s)) + 1, Len(s))
IsSuffix(s, t) == Len(s) <= Len(t) /\ s = LastN(t, Len(s))

(***************************************************************************)
(* ConversationManager.                                                    *)
(***************************************************************************)
new(max) == [history |-> <<>>, current |-> <<>>, max_history_size |-> max]

\* VecDeque::pop_front: removes the first element, nothing on an empty deque
pop_front(h) == IF h = <<>> THEN h ELSE Tail(h)

add_to_history_pop_back(cm, message) ==
    [cm EXCEPT !.history =
        Append(IF Len(cm.history) >= cm.max_history_size /\ cm.history # <<>>
               THEN SubSeq(cm.history, 1, Len(cm.history) - 1)
               ELSE cm.history, message)]

add_to_history(cm, message) ==
    [cm EXCEPT !.history =
        Append(IF Len(cm.history) >= cm.max_history_size
               THEN pop_front(cm.history)
               ELSE cm.history, message)]

add_to_current_bounded(cm, message) ==
    [cm EXCEPT !.current =
        Append(IF Len(cm.current) >= cm.max_history_size
               THEN pop_front(cm.current)
               ELSE cm.current, message)]

add_to_current(cm, message) == [cm EXCEPT !.current = Append(cm.current, message)]

clear_current(cm) == [cm EXCEPT !.current = <<>>]

\* Vec::extend / collect: push the items one by one at the back
RECURSIVE extend(_, _)
extend(vec, items) ==
    IF items = <<>> THEN vec ELSE extend(Append(vec, Head(items)), Tail(items))

get_combined_conversation_current_first(cm) == extend(extend(<<>>, cm.current), cm.history)

get_combined_conversation(cm) == extend(extend(<<>>, cm.history), cm.current)

\* the loop drains a clone of current: every message goes through
\* add_to_history, and self.current itself is not touched
RECURSIVE commit_loop(_, _)
commit_loop(cm, drained) ==
    IF drained = <<>> THEN cm
    ELSE commit_loop(add_to_history(cm, Head(drained)), Tail(drained))

commit_current_to_history(cm) == commit_loop(cm, cm.current)

(***************************************************************************)
(* SpecStore: a client calling the store's operations in any order.        *)
(***************************************************************************)
StoreMessages ==
    { Message("user", Text(<<"Hello">>)),
      Message("assistant", Text(<<"Hi there">>)),
      Message("user", Text(<<"How are you?">>)) }

Call(op, ret) == [op |-> op, pre |-> conversation_manager, ret |-> ret]

\* no apply_edits call is running
PatchIdle ==
    /\ p_pc = "idle"
    /\ file = <<>>
    /\ original_content = <<>>
    /\ edit_instructions = <<>>
    /\ original_content_lines = <<>>
    /\ edited_lines = <<>>
    /\ edit_index = 1
    /\ changes_made = FALSE
    /\ failed_edits = <<>>
    /\ apply_result = <<>>
    /\ edit_log = <<>>

\* no call of generate_and_apply_diff on its own is running
DiffIdle ==
    /\ d_pc = "idle"
    /\ d_original = <<>>
    /\ d_new_content = <<>>
    /\ d_input = <<>>
    /\ d_result = <<>>

\* no parse_search_replace_blocks call is running
ExtractIdle ==
    /\ x_pc = "idle"
    /\ x_segments = <<>>
    /\ x_text = <<>>
    /\ x_blocks = <<>>

\* a ToolExecutor after ToolExecutor::new, no execute_tool call running
ExecutorNew ==
    /\ code_editor_memory = <<>>
    /\ code_editor_files = {}
    /\ executor_current = <<>>
NoCall ==
    /\ call_name = "none"
    /\ call_input = <<>>
    /\ call_result = <<>>
    /\ handler = "none"
    /\ attempt = 0
    /\ instructions = <<>>
    /\ passes = 0
ToolsIdle ==
    /\ t_pc = "idle"
    /\ file_exists = TRUE
    /\ folders = {}
    /\ NoCall
    /\ ExecutorNew

AgentInit ==
    /\ pc = "main_start"
    /\ prompt = <<>>
    /\ iteration = 0
    /\ round = 0
    /\ content = <<>>
    /\ idx = 1
    /\ response_text = <<>>
    /\ tool_results = <<>>
    /\ outer_text = <<>>
    /\ inner_text = <<>>
    /\ chat_result = [ok |-> TRUE, text |-> <<>>, error |-> <<>>]   \* no result yet
    /\ sent = <<>>
    /\ received = <<>>
    /\ executed = <<>>
    /\ slept_secs = 0
    /\ rate_limited = 0

InitStore ==
    /\ \E max \in 0..MaxCap : conversation_manager = new(max)
    /\ inserted = <<>>
    /\ last_call = [op |-> "new", pre |-> new(0), ret |-> <<>>]
    /\ AgentInit
    /\ ExtractIdle
    /\ DiffIdle
    /\ PatchIdle
    /\ ToolsIdle

CallAddToHistory ==
    /\ Len(inserted) < MaxInserted
    /\ \E m \in StoreMessages :
        /\ conversation_manager' = add_to_history(conversation_manager, m)
        /\ inserted' = Append(inserted, m)
        /\ last_call' = Call("add_to_history", <<>>)
    /\ UNCHANGED agent_vars

CallAddToCurrent ==
    /\ Len(conversation_manager.current) < MaxCur
    /\ \E m \in StoreMessages :
        /\ conversation_manager' = add_to_current(conversation_manager, m)
        /\ last_call' = Call("add_to_current", <<>>)
    /\ UNCHANGED <<inserted, agent_vars>>

CallClearCurrent ==
    /\ conversation_manager' = clear_current(conversation_manager)
    /\ last_call' = Call("clear_current", <<>>)
    /\ UNCHANGED <<inserted, agent_vars>>

CallGetCombinedConversation ==
    /\ last_call' = Call("get_combined_conversation",
                         get_combined_conversation(conversation_manager))
    /\ UNCHANGED <<conversation_manager, inserted, agent_vars>>

CallCommitCurrentToHistory ==
    /\ Len(inserted) + Len(conversation_manager.current) <= MaxInserted
    /\ conversation_manager' = commit_current_to_history(conversation_manager)
    /\ inserted' = inserted \o conversation_manager.current
    /\ last_call' = Call("commit_current_to_history", <<>>)
    /\ UNCHANGED agent_vars

NextStore ==
    \/ CallAddToHistory
    \/ CallAddToCurrent
    \/ CallClearCurrent
    \/ CallGetCombinedConversation
    \/ CallCommitCurrentToHistory

SpecStore == InitStore /\ [][NextStore]_vars

(***************************************************************************)
(* Strings are sequences of atoms; `contains` is str::contains on them.    *)
(* An anyhow error is its chain of messages, outermost context first.      *)
(***************************************************************************)
contains(str, phrase) == \E i \in DOMAIN str : str[i] = phrase
push_str(str, more) == str \o more

context(e, msg) == <<msg>> \o e
to_string(e) == e[1]
root_cause(e) == e[Len(e)]

Ok(text) == [ok |-> TRUE, text |-> text, error |-> <<>>]
Err(e) == [ok |-> FALSE, text |-> <<>>, error |-> e]

(***************************************************************************)
(* The remote chat service (anthropic_sdk) and what it may answer.         *)
(***************************************************************************)
RateLimitError == << <<"API error:", RateLimitPhrase>> >>
RemoteFailure == << <<"API error:", "overloaded">> >>
RemoteErrors == {RateLimitError, RemoteFailure}

Prompts == { <<"first task">>, <<"second task">> }

TextItem(text) == [type |-> "text", text |-> text]
ToolUseItem(id, name, input) == [type |-> "tool_use", id |-> id, name |-> name, input |-> input]

\* the items a response is made of: plain text with and without the
\* completion marker, a tool call that can succeed, one that always fails
NoInput == [k \in {} |-> ""]
ItemShapes ==
    { TextItem(<<"working">>),
      TextItem(<<"done", CONTINUATION_EXIT_PHRASE>>),
      ToolUseItem(0, "read_file", [path |-> "a.txt"]),
      ToolUseItem(0, "bogus", NoInput) }

ContentShapes == UNION { [1..n -> ItemShapes] : n \in 1..MaxItems }

\* the service gives every tool-use item of a session a fresh id
FreshId == Len(received) * MaxItems + 1
WithIds(shape, first) ==
    [i \in DOMAIN shape |->
        IF shape[i].type = "tool_use"
        THEN [shape[i] EXCEPT !.id = first + i - 1]
        ELSE shape[i]]

HasToolUse(c) == \E i \in DOMAIN c : c[i].type = "tool_use"
Response(c) ==
    [content |-> c, stop_reason |-> IF HasToolUse(c) THEN "tool_use" ELSE "end_turn"]

\* what the ghost `received` keeps of a response: its text (the text items
\* concatenated), whether it requests tools, and its stop reason
RECURSIVE TextOf(_)
TextOf(c) ==
    IF c = <<>> THEN <<>>
    ELSE (IF Head(c).type = "text" THEN Head(c).text ELSE <<>>) \o TextOf(Tail(c))
Digest(res) ==
    [text |-> TextOf(res.content), tool_use |-> HasToolUse(res.content),
     stop_reason |-> res.stop_reason]

(***************************************************************************)
(* ToolExecutor::execute_tool: the possible results of one call.           *)
(***************************************************************************)
IoError == << <<"No such file or directory">> >>
execute_tool(tool_name, tool_input) ==
    CASE tool_name = "read_file" ->
            IF "path" \in DOMAIN tool_input
            THEN {Ok(<<"contents of", tool_input.path>>), Err(IoError)}
            ELSE {Err(<< <<"Missing path">> >>)}
      [] tool_name = "list_files" ->
            {Ok(<<"a.txt">>), Err(IoError)}
      [] OTHER -> {Err(<< <<"Unknown tool:", tool_name>> >>)}

(***************************************************************************)
(* Claude::chat_with_claude and the functions it calls.                    *)
(***************************************************************************)
Init ==
    /\ conversation_manager = new(HistoryCapacity)
    /\ inserted = <<>>
    /\ last_call = [op |-> "new", pre |-> new(0), ret |-> <<>>]
    /\ AgentInit
    /\ ExtractIdle
    /\ DiffIdle
    /\ PatchIdle
    /\ ToolsIdle

\* the locals of a chat_with_claude call that has not started or has returned
NoFrame ==
    /\ round' = 0
    /\ content' = <<>>
    /\ idx' = 1
    /\ response_text' = <<>>
    /\ tool_results' = <<>>
    /\ outer_text' = <<>>
    /\ inner_text' = <<>>

NoSession ==
    /\ sent' = <<>>
    /\ received' = <<>>
    /\ executed' = <<>>
    /\ slept_secs' = 0
    /\ rate_limited' = 0

NoResult == Ok(<<>>)

\* ghost: the request sent last got its answer
Answered(outcome) == [sent EXCEPT ![Len(sent)].outcome = outcome]
Outcome(e) == IF e = RateLimitError THEN "rate_limited" ELSE "failed"

\* chat_with_claude returns `result` to main
ChatReturns(result) ==
    /\ chat_result' = result
    /\ pc' = "chat_returned"
    /\ NoFrame

\* the test of chat_with_claude's Err arm
is_rate_limited_never(e) == FALSE

is_rate_limited(e) == contains(to_string(e), RateLimitPhrase)

ask_claude_simple_no_clear ==
    /\ pc = "ask_simple"
    /\ LET cm == add_to_current(conversation_manager, Message("user", Text(prompt)))
       IN  /\ conversation_manager' = cm
           /\ sent' = Append(sent, [kind |-> "simple", outcome |-> "pending",
                                    messages |-> get_combined_conversation(cm)])
    /\ pc' = "await_simple"
    /\ UNCHANGED <<store_ghost, main_vars, frame_vars, chat_result,
                   received, executed, slept_secs, rate_limited>>

\* ask_claude_simple up to the request's execute_and_return_json().await
ask_claude_simple ==
    /\ pc = "ask_simple"
    /\ LET cm == add_to_current(clear_current(conversation_manager),
                                Message("user", Text(prompt)))
       IN  /\ conversation_manager' = cm
           /\ sent' = Append(sent, [kind |-> "simple", outcome |-> "pending",
                                    messages |-> get_combined_conversation(cm)])
    /\ pc' = "await_simple"
    /\ UNCHANGED <<store_ghost, main_vars, frame_vars, chat_result,
                   received, executed, slept_secs, rate_limited>>

\* ask_claude_simple returns Ok(res): chat_with_claude starts
\* process_content_response(anthropic_response.content)
SimpleOk ==
    /\ pc = "await_simple"
    /\ \E shape \in ContentShapes :
        LET c == WithIds(shape, FreshId) IN
        /\ received' = Append(received, Digest(Response(c)))
        /\ content' = c
    /\ idx' = 1
    /\ response_text' = <<>>
    /\ tool_results' = <<>>
    /\ round' = 1
    /\ pc' = "process"
    /\ sent' = Answered("ok")
    /\ UNCHANGED <<conversation_manager, store_ghost, main_vars, outer_text, inner_text,
                   chat_result, executed, slept_secs, rate_limited>>

\* ask_claude_simple returns Err(e): the Err arm of chat_with_claude
SimpleErr ==
    /\ pc = "await_simple"
    /\ \E e \in RemoteErrors :
        /\ e = RateLimitError => rate_limited < MaxRetries
        /\ rate_limited' = IF e = RateLimitError THEN rate_limited + 1 ELSE rate_limited
        /\ sent' = Answered(Outcome(e))
        /\ IF is_rate_limited(e)
           THEN pc' = "sleep" /\ UNCHANGED <<chat_result, frame_vars>>
           ELSE ChatReturns(Err(context(e, <<"Failed to execute query with tools">>)))
    /\ UNCHANGED <<conversation_manager, store_ghost, main_vars,
                   received, executed, slept_secs>>

SleepAndRetry_never_wakes ==
    /\ pc = "sleep"
    /\ UNCHANGED vars

\* tokio::time::sleep(5 s), then the recursive chat_with_claude(prompt)
SleepAndRetry ==
    /\ pc = "sleep"
    /\ slept_secs' = slept_secs + RetryDelaySecs
    /\ pc' = "ask_simple"
    /\ UNCHANGED <<conversation_manager, store_ghost, main_vars, frame_vars, chat_result,
                   sent, received, executed, rate_limited>>

ProcessItem_skip_failed ==
    /\ pc = "process"
    /\ idx <= Len(content)
    /\ LET item == content[idx] IN
       IF item.type = "text"
       THEN /\ response_text' = push_str(response_text, item.text)
            /\ UNCHANGED <<tool_results, executed>>
       ELSE \E r \in execute_tool(item.name, item.input) :
            /\ executed' = Append(executed, [id |-> item.id, name |-> item.name,
                                             ok |-> r.ok, round |-> round,
                                             requests |-> Len(sent)])
            /\ tool_results' =
                  IF r.ok
                  THEN Append(tool_results,
                            [id |-> item.id, name |-> item.name, input |-> item.input,
                             tool_result |-> r.text])
                  ELSE tool_results
            /\ UNCHANGED response_text
    /\ idx' = idx + 1
    /\ UNCHANGED <<conversation_manager, store_ghost, main_vars, sent, received,
                   slept_secs, rate_limited, chat_result, pc, round, content,
                   outer_text, inner_text>>

\* one iteration of process_content_response's loop
ProcessItem ==
    /\ pc = "process"
    /\ idx <= Len(content)
    /\ LET item == content[idx] IN
       IF item.type = "text"
       THEN /\ response_text' = push_str(response_text, item.text)
            /\ idx' = idx + 1
            /\ UNCHANGED <<tool_results, executed, chat_result, pc, round, content,
                           outer_text, inner_text>>
       ELSE \E r \in execute_tool(item.name, item.input) :
            /\ executed' = Append(executed, [id |-> item.id, name |-> item.name,
                                             ok |-> r.ok, round |-> round,
                                             requests |-> Len(sent)])
            /\ IF r.ok
               THEN /\ tool_results' = Append(tool_results,
                            [id |-> item.id, name |-> item.name, input |-> item.input,
                             tool_result |-> r.text])
                    /\ idx' = idx + 1
                    /\ UNCHANGED <<response_text, chat_result, pc, round, content,
                                   outer_text, inner_text>>
               ELSE ChatReturns(Err(context(r.error,
                            <<"Failed to execute tool:", item.name>>)))
    /\ UNCHANGED <<conversation_manager, store_ghost, main_vars, sent, received,
                   slept_secs, rate_limited>>

RECURSIVE add_tool_usages_batched(_, _)
add_tool_usages_batched(cm, usages) ==
    IF usages = <<>> THEN cm
    ELSE LET u == Head(usages)
             a == Message("assistant", ToolUseAssistantContent(
                      << [type |-> "tool_use", id |-> u.id, name |-> u.name,
                          input |-> u.input] >>))
             b == Message("user", ToolUseUserContent(
                      << [type |-> "tool_result", tool_use_id |-> u.id,
                          content |-> u.tool_result] >>))
             rest == add_tool_usages_batched(add_to_current(cm, a), Tail(usages))
         IN  add_to_current(rest, b)

RECURSIVE add_tool_usages_roles_swapped(_, _)
add_tool_usages_roles_swapped(cm, usages) ==
    IF usages = <<>> THEN cm
    ELSE LET u == Head(usages)
             a == Message("user", ToolUseAssistantContent(
                      << [type |-> "tool_use", id |-> u.id, name |-> u.name,
                          input |-> u.input] >>))
             b == Message("assistant", ToolUseUserContent(
                      << [type |-> "tool_result", tool_use_id |-> u.id,
                          content |-> u.tool_result] >>))
         IN  add_tool_usages_roles_swapped(add_to_current(add_to_current(cm, a), b),
                                           Tail(usages))

\* ask_claude_tool's loop: an assistant tool-use message and a user
\* tool-result message for every tool usage
RECURSIVE add_tool_usages(_, _)
add_tool_usages(cm, usages) ==
    IF usages = <<>> THEN cm
    ELSE LET u == Head(usages)
             a == Message("assistant", ToolUseAssistantContent(
                      << [type |-> "tool_use", id |-> u.id, name |-> u.name,
                          input |-> u.input] >>))
             b == Message("user", ToolUseUserContent(
                      << [type |-> "tool_result", tool_use_id |-> u.id,
                          content |-> u.tool_result] >>))
         IN  add_tool_usages(add_to_current(add_to_current(cm, a), b), Tail(usages))

\* process_content_response returns Ok((response_text, tool_results)), which
\* chat_with_claude binds, and ask_claude_tool(tool_usages) runs up to the
\* request's execute_and_return_json().await
ask_claude_tool ==
    /\ pc = "process"
    /\ idx > Len(content)
    /\ IF round = 1
       THEN outer_text' = response_text /\ UNCHANGED inner_text
       ELSE inner_text' = response_text /\ UNCHANGED outer_text
    /\ LET cm == add_tool_usages(conversation_manager, tool_results)
       IN  /\ conversation_manager' = cm
           /\ sent' = Append(sent, [kind |-> "tool", outcome |-> "pending",
                                    messages |-> get_combined_conversation(cm)])
    /\ content' = <<>>
    /\ idx' = 1
    /\ response_text' = <<>>
    /\ tool_results' = <<>>
    /\ pc' = "await_tool"
    /\ UNCHANGED <<store_ghost, main_vars, round, chat_result, received, executed,
                   slept_secs, rate_limited>>

AfterToolResponse_unbounded(tool_result) ==
    IF tool_result.stop_reason = "tool_use"
    THEN /\ content' = tool_result.content
         /\ idx' = 1
         /\ response_text' = <<>>
         /\ tool_results' = <<>>
         /\ round' = 2
         /\ pc' = "process"
         /\ UNCHANGED <<chat_result, outer_text, inner_text>>
    ELSE ChatReturns(Ok(outer_text))

\* what chat_with_claude does with the response of the first ask_claude_tool
\* (lines 245-254) and of the second (lines 249-254)
AfterToolResponse(tool_result) ==
    IF round = 1 /\ tool_result.stop_reason = "tool_use"
    THEN /\ content' = tool_result.content
         /\ idx' = 1
         /\ response_text' = <<>>
         /\ tool_results' = <<>>
         /\ round' = 2
         /\ pc' = "process"
         /\ UNCHANGED <<chat_result, outer_text, inner_text>>
    ELSE ChatReturns(IF round = 2 /\ tool_result.stop_reason = "tool_use"
                     THEN Ok(inner_text)
                     ELSE Ok(outer_text))

ToolOk ==
    /\ pc = "await_tool"
    /\ \E shape \in ContentShapes :
        LET c == WithIds(shape, FreshId) IN
        /\ received' = Append(received, Digest(Response(c)))
        /\ AfterToolResponse(Response(c))
    /\ sent' = Answered("ok")
    /\ UNCHANGED <<conversation_manager, store_ghost, main_vars,
                   executed, slept_secs, rate_limited>>

ToolErr_retries_rate_limit ==
    /\ pc = "await_tool"
    /\ \E e \in RemoteErrors :
        /\ e = RateLimitError => rate_limited < MaxRetries
        /\ rate_limited' = IF e = RateLimitError THEN rate_limited + 1 ELSE rate_limited
        /\ sent' = Answered(Outcome(e))
        /\ IF is_rate_limited(e)
           THEN pc' = "sleep" /\ UNCHANGED <<chat_result, frame_vars>>
           ELSE ChatReturns(Err(context(e,
                    <<"Failed to execute Anthropic request after tool use">>)))
    /\ UNCHANGED <<conversation_manager, store_ghost, main_vars, received, executed,
                   slept_secs>>

\* ask_claude_tool(...).await? : any failure of the request leaves
\* chat_with_claude
ToolErr ==
    /\ pc = "await_tool"
    /\ \E e \in RemoteErrors :
        /\ ChatReturns(Err(context(e,
              <<"Failed to execute Anthropic request after tool use">>)))
        /\ sent' = Answered(Outcome(e))
    /\ UNCHANGED <<conversation_manager, store_ghost, main_vars, received, executed,
                   slept_secs, rate_limited>>

(***************************************************************************)
(* main.                                                                   *)
(***************************************************************************)
\* load_text_editor()? before the loop, then the first iteration calls
\* chat_with_claude(&prompt)
MainStart ==
    /\ pc = "main_start"
    /\ \/ \E p \in Prompts : prompt' = p /\ pc' = "ask_simple"
       \/ pc' = "exit_err" /\ UNCHANGED prompt
    /\ UNCHANGED <<conversation_manager, store_ghost, iteration, frame_vars, chat_result,
                   ghost_vars>>

\* the match on chat_with_claude's result (lines 375-397); the session is over
MainAfterChat ==
    /\ pc = "chat_returned"
    /\ IF chat_result.ok
       THEN IF contains(chat_result.text, CONTINUATION_EXIT_PHRASE)
            THEN pc' = "exit_ok" /\ UNCHANGED iteration
            ELSE pc' = "main_command" /\ iteration' = iteration + 1
       ELSE pc' = "exit_err" /\ UNCHANGED iteration
    /\ chat_result' = NoResult
    /\ NoSession
    /\ UNCHANGED <<conversation_manager, store_ghost, prompt, frame_vars>>

\* iteration > 0: the command read from stdin (lines 336-370), then
\* chat_with_claude(&prompt)
main_loop_command(cap) ==
    /\ pc = "main_command"
    /\ \E command \in {"c", "e", "n", "?"} :
        CASE command = "c" ->
                /\ iteration < cap
                /\ pc' = "ask_simple"
                /\ UNCHANGED prompt
          [] command = "e" ->
                /\ pc' = "exit_ok"
                /\ UNCHANGED prompt
          [] command = "n" ->
                /\ iteration < cap
                /\ \/ \E p \in Prompts : prompt' = p /\ pc' = "ask_simple"
                   \/ pc' = "exit_err" /\ UNCHANGED prompt
          [] OTHER ->
                /\ pc' = "panic"
                /\ UNCHANGED prompt
    /\ UNCHANGED <<conversation_manager, store_ghost, iteration, frame_vars, chat_result,
                   ghost_vars>>

MainCommand == main_loop_command(MaxSessions)

Next ==
    \/ MainStart
    \/ ask_claude_simple
    \/ SimpleOk
    \/ SimpleErr
    \/ SleepAndRetry
    \/ ProcessItem
    \/ ask_claude_tool
    \/ ToolOk
    \/ ToolErr
    \/ MainAfterChat
    \/ MainCommand

Spec == Init /\ [][Next]_vars

(***************************************************************************)
(* One session under fairness, from main's first call of chat_with_claude *)
(* on. The program keeps running: a request that was sent gets its answer, *)
(* a tool that was called returns, the sleep ends. The service rate-limits *)
(* the first request of a session at most MaxRetries times.                *)
(***************************************************************************)
InitSession ==
    /\ conversation_manager = new(HistoryCapacity)
    /\ inserted = <<>>
    /\ last_call = [op |-> "new", pre |-> new(0), ret |-> <<>>]
    /\ pc = "ask_simple"
    /\ prompt = <<"first task">>
    /\ iteration = 0
    /\ round = 0
    /\ content = <<>>
    /\ idx = 1
    /\ response_text = <<>>
    /\ tool_results = <<>>
    /\ outer_text = <<>>
    /\ inner_text = <<>>
    /\ chat_result = NoResult
    /\ sent = <<>>
    /\ received = <<>>
    /\ executed = <<>>
    /\ slept_secs = 0
    /\ rate_limited = 0
    /\ ExtractIdle
    /\ DiffIdle
    /\ PatchIdle
    /\ ToolsIdle

NextSession ==
    \/ ask_claude_simple
    \/ SimpleOk
    \/ SimpleErr
    \/ SleepAndRetry
    \/ ProcessItem
    \/ ask_claude_tool
    \/ ToolOk
    \/ ToolErr

SpecLive == InitSession /\ [][NextSession]_vars /\ WF_vars(NextSession)

(***************************************************************************)
(* main's loop alone (main.rs:334-398): a session is one step, the result  *)
(* chat_with_claude(&prompt).await hands to main; the conversation and the *)
(* requests of the session are not followed here.                          *)
(***************************************************************************)
ChatResults ==
    { Ok(<<"working">>),
      Ok(<<"done", CONTINUATION_EXIT_PHRASE>>),
      Err(context(RemoteFailure, <<"Failed to execute query with tools">>)) }

ChatWithClaude ==
    /\ pc = "ask_simple"
    /\ \E result \in ChatResults : ChatReturns(result)
    /\ UNCHANGED <<conversation_manager, store_ghost, main_vars, ghost_vars>>

MainCommandOfMany == main_loop_command(MaxIterations)

NextMain == MainStart \/ ChatWithClaude \/ MainAfterChat \/ MainCommandOfMany
SpecMain == Init /\ [][NextMain]_vars

(***************************************************************************)
(* Text for apply_edits: a string is the sequence of its characters, so    *)
(* that splitting into lines, joining and whitespace normalisation are     *)
(* computed as the standard library computes them.                         *)
(***************************************************************************)
NL == <<"\n">>
IsWhitespace(c) == c \in {" ", "\n", "\t"}

\* \s*: the position after the whitespace that starts at i
RECURSIVE skip_whitespace(_, _)
skip_whitespace(t, i) ==
    IF i <= Len(t) /\ IsWhitespace(t[i]) THEN skip_whitespace(t, i + 1) ELSE i

\* str::trim
RECURSIVE trim_end(_)
trim_end(s) ==
    IF s # <<>> /\ IsWhitespace(s[Len(s)]) THEN trim_end(SubSeq(s, 1, Len(s) - 1)) ELSE s
trim(s) == trim_end(SubSeq(s, skip_whitespace(s, 1), Len(s)))

\* str::to_lowercase, on the letters the model types
lower(c) == CASE c = "Y" -> "y" [] c = "N" -> "n" [] OTHER -> c
to_lowercase(s) == [k \in DOMAIN s |-> lower(s[k])]

\* str::lines: split at "\n"; a final line needs no terminator, and nothing
\* follows a final terminator
RECURSIVE lines_acc(_, _, _)
lines_acc(s, acc, cur) ==
    IF s = <<>> THEN (IF cur = <<>> THEN acc ELSE Append(acc, cur))
    ELSE IF Head(s) = "\n" THEN lines_acc(Tail(s), Append(acc, cur), <<>>)
    ELSE lines_acc(Tail(s), acc, Append(cur, Head(s)))
lines(s) == lines_acc(s, <<>>, <<>>)

\* [String]::join
RECURSIVE join(_, _)
join(strs, sep) ==
    IF strs = <<>> THEN <<>>
    ELSE IF Len(strs) = 1 THEN strs[1]
    ELSE strs[1] \o sep \o join(Tail(strs), sep)

\* str::split_whitespace: the maximal runs of non-whitespace characters
RECURSIVE split_acc(_, _, _)
split_acc(s, acc, cur) ==
    IF s = <<>> THEN (IF cur = <<>> THEN acc ELSE Append(acc, cur))
    ELSE IF IsWhitespace(Head(s))
         THEN split_acc(Tail(s), IF cur = <<>> THEN acc ELSE Append(acc, cur), <<>>)
    ELSE split_acc(Tail(s), acc, Append(cur, Head(s)))
split_whitespace(s) == split_acc(s, <<>>, <<>>)

normalize_whitespace(s) == join(split_whitespace(s), <<" ">>)

\* Vec::splice(start..=end, replace_with), indices from 0
splice(v, start, end, replace_with) ==
    SubSeq(v, 1, start) \o replace_with \o SubSeq(v, end + 2, Len(v))

(***************************************************************************)
(* The inputs of apply_edits: a file and a list of edit instructions.      *)
(***************************************************************************)
MaxLines == 2      \* SpecPatch: lines of the file before the call
MaxEdits == 2      \* SpecPatch: edit instructions per call

FileLines == { <<" ", "a">>, <<"b">>, <<"a", " ", " ", "b">> }
FileContents ==
    {<<>>} \cup
    UNION { UNION { {join(ls, NL), join(ls, NL) \o NL} : ls \in [1..n -> FileLines] }
            : n \in 1..MaxLines }

EditInstruction(search, replace) == [search |-> search, replace |-> replace]
Instructions ==
    { EditInstruction(<<"a">>, <<"b">>),
      EditInstruction(<<"b">>, <<"c", "\n", " ", "c">>),
      EditInstruction(<<"a", "\t", "b">>, <<>>),
      EditInstruction(<<"a", "\n", "b">>, <<"b">>),
      EditInstruction(<<"b">>, <<"b">>),
      EditInstruction(<<>>, <<"c">>),
      EditInstruction(<<"c">>, <<"a">>) }
InstructionLists == UNION { [1..n -> Instructions] : n \in 0..MaxEdits }

(***************************************************************************)
(* ToolExecutor::apply_edits.                                              *)
(***************************************************************************)
NoMatch == -1

\* the 'outer loop: the first start_index at which every search line equals
\* the normalised line of the working content
RECURSIVE find_match(_, _, _)
find_match_last(v, search_lines, start_index) ==
    LET hits == { s \in 0..(Len(v) - 1) :
                    /\ Len(v) - s >= Len(search_lines)
                    /\ \A j \in 1..Len(search_lines) :
                          normalize_whitespace(v[s + j]) = search_lines[j] }
    IN  IF hits = {} THEN NoMatch ELSE CHOOSE s \in hits : \A t \in hits : t <= s
find_match(v, search_lines, start_index) ==
    IF start_index >= Len(v) THEN NoMatch
    ELSE IF Len(v) - start_index < Len(search_lines) THEN NoMatch
    ELSE IF \A j \in 1..Len(search_lines) :
                normalize_whitespace(v[start_index + j]) = search_lines[j]
         THEN start_index
    ELSE find_match(v, search_lines, start_index + 1)

search_lines_of(edit) ==
    [j \in DOMAIN lines(edit.search) |-> normalize_whitespace(lines(edit.search)[j])]
replace_lines_of(edit) == lines(edit.replace)

\* the instruction the loop takes at 1-based position i
edit_at_reversed(i) == edit_instructions[Len(edit_instructions) + 1 - i]
edit_at(i) == edit_instructions[i]

\* one iteration of the loop on the working content, up to the splice: the
\* subtraction in end_index overflows when there is no search line
process_edit_append_on_miss(v, edit) ==
    LET start_index == find_match(v, search_lines_of(edit), 0)
    IN  IF start_index = NoMatch
        THEN [outcome |-> "not_found", start |-> NoMatch,
              lines |-> v \o replace_lines_of(edit)]
        ELSE IF Len(search_lines_of(edit)) = 0
        THEN [outcome |-> "panic", start |-> start_index, lines |-> v]
        ELSE [outcome |-> "applied", start |-> start_index,
              lines |-> splice(v, start_index,
                               start_index + Len(search_lines_of(edit)) - 1,
                               replace_lines_of(edit))]
process_edit(v, edit) ==
    LET start_index == find_match(v, search_lines_of(edit), 0)
    IN  IF start_index = NoMatch
        THEN [outcome |-> "not_found", start |-> NoMatch, lines |-> v]
        ELSE IF Len(search_lines_of(edit)) = 0
        THEN [outcome |-> "panic", start |-> start_index, lines |-> v]
        ELSE [outcome |-> "applied", start |-> start_index,
              lines |-> splice(v, start_index,
                               start_index + Len(search_lines_of(edit)) - 1,
                               replace_lines_of(edit))]

\* TextDiff::from_lines' tokens: the lines with their terminators
RECURSIVE split_inclusive_acc(_, _, _)
split_inclusive_acc(s, acc, cur) ==
    IF s = <<>> THEN (IF cur = <<>> THEN acc ELSE Append(acc, cur))
    ELSE IF Head(s) = "\n"
         THEN split_inclusive_acc(Tail(s), Append(acc, Append(cur, "\n")), <<>>)
         ELSE split_inclusive_acc(Tail(s), acc, Append(cur, Head(s)))
split_inclusive(s) == split_inclusive_acc(s, <<>>, <<>>)

\* the number of Equal changes of a shortest edit script
RECURSIVE equal_changes(_, _)
equal_changes(a, b) ==
    IF a = <<>> \/ b = <<>> THEN 0
    ELSE IF Head(a) = Head(b) THEN 1 + equal_changes(Tail(a), Tail(b))
    ELSE LET l == equal_changes(Tail(a), b)
             r == equal_changes(a, Tail(b))
         IN  IF l >= r THEN l ELSE r

\* TextDiff::from_lines(old, new): the counts of its changes by tag
TextDiff(old_text, new_text) ==
    LET a == split_inclusive(old_text)
        b == split_inclusive(new_text)
        e == equal_changes(a, b)
    IN  [old_len |-> Len(a), new_len |-> Len(b), equal |-> e,
         inserted |-> Len(b) - e, deleted |-> Len(a) - e]

\* diff.ratio() == 1.0, the ratio being 2 * equal / (old_len + new_len) and 1.0
\* for two texts of no lines
ratio_is_one_never(d) == FALSE
ratio_is_one(d) ==
    \/ d.old_len + d.new_len = 0
    \/ 2 * d.equal = d.old_len + d.new_len

\* the lines the user may type at the prompt ("" is the end of the input)
StdinLines == { <<"y", "\n">>, <<" ", "Y", " ", "\n">>, <<"n", "\n">>,
                <<"y", "e", "s", "\n">>, <<>> }

\* input.trim().to_lowercase() == "y"
answered_yes_untrimmed(input) == to_lowercase(input) = <<"y">>
answered_yes(input) == to_lowercase(trim(input)) = <<"y">>

\* generate_and_apply_diff when the user types `input`: the outcomes of
\* showing the diff from `original` to `new_content` and asking; `disk` is the
\* file before the call, read_line and fs::write may fail
generate_and_apply_diff_on(original, new_content, disk, input) ==
    LET d == TextDiff(original, new_content) IN
    IF ratio_is_one(d)
    THEN { [ok |-> TRUE, file |-> disk, answer |-> "none", prompted |-> FALSE,
            result |-> Ok(<<"No changes detected.">>)] }
    ELSE { [ok |-> FALSE, file |-> disk, answer |-> "none", prompted |-> TRUE,
            result |-> Err(IoError)] }
         \cup
         (IF answered_yes(input)
          THEN { [ok |-> FALSE, file |-> disk, answer |-> "y", prompted |-> TRUE,
                  result |-> Err(IoError)],
                 [ok |-> TRUE, file |-> new_content, answer |-> "y", prompted |-> TRUE,
                  result |-> Ok(<<"Changes applied to ", "a.txt", ":\n  Lines added: ",
                                  ToString(d.inserted), "\n  Lines removed: ",
                                  ToString(d.deleted)>>)] }
          ELSE { [ok |-> TRUE, file |-> disk, answer |-> "n", prompted |-> TRUE,
                  result |-> Ok(<<"Changes were not applied.">>)] })

\* generate_and_apply_diff: the outcomes over everything the user may type
generate_and_apply_diff(original, new_content, disk) ==
    UNION { generate_and_apply_diff_on(original, new_content, disk, input) :
            input \in StdinLines }

failed_entry_zero_based(i, edit) == <<"Edit ", ToString(i - 1), ": ">> \o edit.search
failed_entry(i, edit) == <<"Edit ", ToString(i), ": ">> \o edit.search

set_changes_made_never(before, applied) == before
set_changes_made(before, applied) == before \/ applied

ApplyOk(edited_content, changed, report) ==
    [ok |-> TRUE, edited_content |-> edited_content, changes_made |-> changed,
     failed_edits |-> report, error |-> <<>>]
ApplyErr_reports_success(e) ==
    [ok |-> TRUE, edited_content |-> <<>>, changes_made |-> FALSE,
     failed_edits |-> <<>>, error |-> e]
ApplyErr(e) ==
    [ok |-> FALSE, edited_content |-> <<>>, changes_made |-> FALSE,
     failed_edits |-> <<>>, error |-> e]

(***************************************************************************)
(* SpecPatch: one call of apply_edits on a file that edit_and_apply has    *)
(* just read, with the user answering each prompt either way and every    *)
(* file or terminal operation free to fail.                                *)
(***************************************************************************)
InitPatch ==
    /\ conversation_manager = new(HistoryCapacity)
    /\ inserted = <<>>
    /\ last_call = [op |-> "new", pre |-> new(0), ret |-> <<>>]
    /\ AgentInit
    /\ ExtractIdle
    /\ DiffIdle
    /\ original_content \in FileContents
    /\ edit_instructions \in InstructionLists
    /\ file = original_content
    /\ original_content_lines = lines(original_content)
    /\ edited_lines = lines(original_content)
    /\ p_pc = "loop"
    /\ edit_index = 1
    /\ changes_made = FALSE
    /\ failed_edits = <<>>
    /\ apply_result = <<>>
    /\ edit_log = <<>>
    /\ ToolsIdle

InLoop == p_pc = "loop" /\ edit_index <= Len(edit_instructions)

LogEntry(r, answer) ==
    [index |-> edit_index, edit |-> edit_at(edit_index), before |-> edited_lines,
     after |-> r.lines, applied |-> r.outcome = "applied", start |-> r.start,
     answer |-> answer]

\* an iteration whose search block is found
EditApplied ==
    /\ InLoop
    /\ LET r == process_edit(edited_lines, edit_at(edit_index))
       IN  /\ r.outcome = "applied"
           /\ edited_lines' = r.lines
           /\ \E d \in generate_and_apply_diff(join(original_content_lines, NL),
                                               join(r.lines, NL), file) :
              \E reread_ok \in BOOLEAN :   \* fs::read_to_string, term.write_line
                /\ file' = d.file
                /\ IF d.ok /\ reread_ok
                   THEN /\ original_content_lines' = lines(d.file)
                        /\ changes_made' = set_changes_made(changes_made, TRUE)
                        /\ edit_index' = edit_index + 1
                        /\ edit_log' = Append(edit_log, LogEntry(r, d.answer))
                        /\ UNCHANGED <<p_pc, apply_result>>
                   ELSE /\ p_pc' = "failed"
                        /\ apply_result' = ApplyErr(IoError)
                        /\ UNCHANGED <<original_content_lines, changes_made, edit_index,
                                       edit_log>>
    /\ UNCHANGED <<original_content, edit_instructions, failed_edits, chat_vars>>

\* an iteration whose search block is not found
EditNotFound ==
    /\ InLoop
    /\ LET r == process_edit(edited_lines, edit_at(edit_index))
       IN  /\ r.outcome = "not_found"
           /\ edited_lines' = r.lines
           /\ \/ /\ failed_edits' = Append(failed_edits,
                                           failed_entry(edit_index, edit_at(edit_index)))
                 /\ edit_log' = Append(edit_log, LogEntry(r, "none"))
                 /\ edit_index' = edit_index + 1
                 /\ UNCHANGED <<p_pc, apply_result>>
              \/ /\ p_pc' = "failed"          \* term.write_line fails
                 /\ apply_result' = ApplyErr(IoError)
                 /\ UNCHANGED <<failed_edits, edit_log, edit_index>>
    /\ UNCHANGED <<file, original_content, edit_instructions, original_content_lines,
                   changes_made, chat_vars>>

\* an iteration that finds a block of no lines: end_index cannot be computed
EditPanics ==
    /\ InLoop
    /\ process_edit(edited_lines, edit_at(edit_index)).outcome = "panic"
    /\ p_pc' = "panicked"
    /\ UNCHANGED <<file, original_content, edit_instructions, original_content_lines,
                   edited_lines, edit_index, changes_made, failed_edits, apply_result,
                   edit_log, chat_vars>>

\* the file after the write that follows the loop
final_write_always(changed, edited_content, disk) == edited_content
final_write_never(changed, edited_content, disk) == disk
final_write(changed, edited_content, disk) == IF changed THEN edited_content ELSE disk

\* after the loop: write the working content if anything was applied, return
ApplyReturns ==
    /\ p_pc = "loop"
    /\ edit_index > Len(edit_instructions)
    /\ LET edited_content == join(edited_lines, NL)
       IN  \/ /\ file' = final_write(changes_made, edited_content, file)
              /\ apply_result' = ApplyOk(edited_content, changes_made,
                                         join(failed_edits, NL))
              /\ p_pc' = "returned"
           \/ /\ file' \in {file} \cup (IF changes_made THEN {edited_content} ELSE {})
              /\ apply_result' = ApplyErr(IoError)
              /\ p_pc' = "failed"
    /\ UNCHANGED <<original_content, edit_instructions, original_content_lines,
                   edited_lines, edit_index, changes_made, failed_edits, edit_log,
                   chat_vars>>

NextPatch == EditApplied \/ EditNotFound \/ EditPanics \/ ApplyReturns
SpecPatch == InitPatch /\ [][NextPatch]_vars

(***************************************************************************)
(* ToolExecutor::execute_tool (tools.rs) on a file system of one file,     *)
(* "a.txt", and one folder, "d".                                           *)
(***************************************************************************)
max_retries == 1   \* edit_and_apply's `max_retries`
MaxPasses == 2     \* SpecTools: requests for edit instructions the executor makes

KnownTools == {"create_folder", "create_file", "edit_and_apply", "read_file",
               "list_files", "fetch_commit_changes"}
\* the names of the TOOLS table, which is what the model is offered
TOOLS == {"create_folder", "create_file", "search_file", "edit_and_apply", "read_file",
          "list_files", "read_multiple_files", "fetch_commit_changes"}
\* "bogus" is not offered
ToolNames == TOOLS \cup {"bogus"}

\* the arguments of a tool's input_schema in TOOLS, and those it requires
Properties(name) ==
    CASE name = "create_file" -> {"path", "content"}
      [] name = "edit_and_apply" -> {"path", "instructions", "project_context"}
      [] name = "fetch_commit_changes" -> {"owner", "repo", "sha"}
      [] name = "search_file" -> {"path", "search_pattern"}
      [] name = "read_multiple_files" -> {"paths"}
      [] OTHER -> {"path"}
Required(name) ==
    CASE name = "list_files" -> {}
      [] name = "bogus" -> {}
      [] OTHER -> Properties(name)

NewContents == { <<"b", "\n">> }
ToolFiles == { <<" ", "a", "\n", "b", "\n">>, <<"b">> }
ArgValue(name, key, new_content) ==
    IF key = "content" THEN new_content
    ELSE IF key = "path" THEN (IF name = "create_folder" THEN "d" ELSE "a.txt")
    ELSE key
\* a tool_input: any of the tool's arguments may be absent
ToolInputs(name) ==
    { [key \in present |-> ArgValue(name, key, c)] :
        present \in SUBSET Properties(name), c \in NewContents }

\* the arm of execute_tool's match that `name` selects
handler_of_create_file_by_default(name) ==
    IF name \in KnownTools THEN name ELSE "create_file"
handler_of(name) == IF name \in KnownTools THEN name ELSE "none"

Missing(what) == Err(<< <<"Missing", what>> >>)

\* the edit instructions the code-editor model may return for "a.txt"
GeneratedInstructions ==
    { EditInstruction(<<"b">>, <<"b">>),
      EditInstruction(<<"a">>, <<"b">>),
      EditInstruction(<<>>, <<"c">>) }
GeneratedLists ==
    { l \in InstructionLists : \A k \in DOMAIN l : l[k] \in GeneratedInstructions }

fs_vars == <<file, file_exists, folders>>
patch_locals == <<p_pc, original_content, edit_instructions, original_content_lines,
                  edited_lines, edit_index, changes_made, failed_edits, apply_result,
                  edit_log>>

InitTools ==
    /\ conversation_manager = new(HistoryCapacity)
    /\ inserted = <<>>
    /\ last_call = [op |-> "new", pre |-> new(0), ret |-> <<>>]
    /\ AgentInit
    /\ ExtractIdle
    /\ DiffIdle
    /\ file_exists \in BOOLEAN
    /\ file \in (IF file_exists THEN ToolFiles ELSE {<<>>})
    /\ folders = {}
    /\ p_pc = "idle"
    /\ original_content = <<>>
    /\ edit_instructions = <<>>
    /\ original_content_lines = <<>>
    /\ edited_lines = <<>>
    /\ edit_index = 1
    /\ changes_made = FALSE
    /\ failed_edits = <<>>
    /\ apply_result = <<>>
    /\ edit_log = <<>>
    /\ t_pc = "idle"
    /\ NoCall
    /\ ExecutorNew

\* execute_tool is entered with `name` and `input`
CallBegins(name, input) ==
    /\ t_pc \in {"idle", "done"}
    /\ input \in ToolInputs(name)
    /\ call_name' = name
    /\ call_input' = input
    /\ attempt' = 0
    /\ instructions' = <<>>
    /\ passes' = 0
\* execute_tool returns `result`, having run handler `h`
CallReturns(result, h) ==
    /\ t_pc' = "done"
    /\ call_result' = result
    /\ handler' = h

CreateFolder ==
    \E name \in ToolNames : \E input \in ToolInputs(name) :
        /\ handler_of(name) = "create_folder"
        /\ CallBegins(name, input)
        /\ IF "path" \notin DOMAIN input
           THEN CallReturns(Missing("path"), "none") /\ UNCHANGED fs_vars
           ELSE \/ /\ folders' = folders \cup {input.path}
                   /\ CallReturns(Ok(<<"Folder created:", input.path>>), "create_folder")
                   /\ UNCHANGED <<file, file_exists>>
                \/ /\ CallReturns(Err(IoError), "create_folder")
                   /\ UNCHANGED fs_vars
        /\ UNCHANGED <<patch_locals, executor_vars, agent_only>>

CreateFile ==
    \E name \in ToolNames : \E input \in ToolInputs(name) :
        /\ handler_of(name) = "create_file"
        /\ CallBegins(name, input)
        /\ IF "path" \notin DOMAIN input
           THEN CallReturns(Missing("path"), "none") /\ UNCHANGED fs_vars
           ELSE \/ /\ file' = IF "content" \in DOMAIN input THEN input.content ELSE <<>>
                   /\ file_exists' = TRUE
                   /\ CallReturns(Ok(<<"File created:", input.path>>), "create_file")
                   /\ UNCHANGED folders
                \/ /\ CallReturns(Err(IoError), "create_file")
                   /\ UNCHANGED fs_vars
        /\ UNCHANGED <<patch_locals, executor_vars, agent_only>>

ReadFile ==
    \E name \in ToolNames : \E input \in ToolInputs(name) :
        /\ handler_of(name) = "read_file"
        /\ CallBegins(name, input)
        /\ IF "path" \notin DOMAIN input
           THEN CallReturns(Missing("path"), "none")
           ELSE \/ /\ file_exists
                   /\ CallReturns(Ok(file), "read_file")
                \/ CallReturns(Err(<< <<"Error reading file:">> \o IoError[1] >>),
                               "read_file")
        /\ UNCHANGED <<fs_vars, patch_locals, executor_vars, agent_only>>

ListFiles ==
    \E name \in ToolNames : \E input \in ToolInputs(name) :
        /\ handler_of(name) = "list_files"
        /\ CallBegins(name, input)
        /\ \/ CallReturns(Ok(IF file_exists THEN <<"a.txt">> ELSE <<>>), "list_files")
           \/ CallReturns(Err(IoError), "list_files")
        /\ UNCHANGED <<fs_vars, patch_locals, executor_vars, agent_only>>

FetchCommitChanges ==
    \E name \in ToolNames : \E input \in ToolInputs(name) :
        /\ handler_of(name) = "fetch_commit_changes"
        /\ CallBegins(name, input)
        /\ IF "owner" \notin DOMAIN input THEN CallReturns(Missing("owner"), "none")
           ELSE IF "repo" \notin DOMAIN input THEN CallReturns(Missing("repo"), "none")
           ELSE IF "sha" \notin DOMAIN input THEN CallReturns(Missing("sha"), "none")
           ELSE \/ CallReturns(Ok(<<"changes of", input.sha>>), "fetch_commit_changes")
                \/ CallReturns(Err(RemoteFailure), "fetch_commit_changes")
        /\ UNCHANGED <<fs_vars, patch_locals, executor_vars, agent_only>>

UnknownTool ==
    \E name \in ToolNames : \E input \in ToolInputs(name) :
        /\ handler_of(name) = "none"
        /\ CallBegins(name, input)
        /\ CallReturns(Err(<< <<"Unknown tool:", name>> >>), "none")
        /\ UNCHANGED <<fs_vars, patch_locals, executor_vars, agent_only>>

\* the instructions of the retry: the instructions of the pass and the
\* report of the edits that were not applied
retry_instructions_same(given, report) == given
retry_instructions(given, report) ==
    given \o <<"\n\nPlease retry the following edits that could not be applied:\n">>
          \o report

\* edit_and_apply is entered (from execute_tool or from itself): it reads the
\* file and starts its attempt loop
edit_and_apply_enters ==
    \/ /\ file_exists
       /\ original_content' = file
       /\ attempt' = 0
       /\ t_pc' = "generate"
       /\ call_result' = <<>>
    \/ /\ CallReturns(Err(IoError), "edit_and_apply")
       /\ UNCHANGED <<original_content, attempt>>

EditAndApply ==
    \E name \in ToolNames : \E input \in ToolInputs(name) :
        /\ handler_of(name) = "edit_and_apply"
        /\ t_pc \in {"idle", "done"}
        /\ call_name' = name
        /\ call_input' = input
        /\ passes' = 0
        /\ IF "path" \notin DOMAIN input
           THEN CallReturns(Missing("path"), "none")
                /\ UNCHANGED <<original_content, attempt, instructions>>
           ELSE IF "instructions" \notin DOMAIN input
           THEN CallReturns(Missing("new_content"), "none")
                /\ UNCHANGED <<original_content, attempt, instructions>>
           ELSE IF "project_context" \notin DOMAIN input
           THEN CallReturns(Missing("project_context"), "none")
                /\ UNCHANGED <<original_content, attempt, instructions>>
           ELSE /\ edit_and_apply_enters
                /\ instructions' = <<input.instructions>>
                /\ handler' = "edit_and_apply"
        /\ UNCHANGED <<fs_vars, p_pc, edit_instructions, original_content_lines,
                       edited_lines, edit_index, changes_made, failed_edits, apply_result,
                       edit_log, executor_vars, agent_only>>

\* one pass of the attempt loop up to the call of apply_edits:
\* generate_edit_instructions asks the code-editor model, and the
\* instructions parsed from its answer are handed to apply_edits
GenerateEditInstructions ==
    /\ t_pc = "generate"
    /\ Len(executor_current) < MaxPasses
    /\ executor_current' = Append(executor_current, "system_prompt")
    /\ \/ /\ \E generated \in GeneratedLists : edit_instructions' = generated
          /\ code_editor_memory' = Append(code_editor_memory, call_input.path)
          /\ code_editor_files' = code_editor_files \cup {call_input.path}
          /\ passes' = passes + 1
          /\ original_content_lines' = lines(original_content)
          /\ edited_lines' = lines(original_content)
          /\ edit_index' = 1
          /\ changes_made' = FALSE
          /\ failed_edits' = <<>>
          /\ apply_result' = <<>>
          /\ edit_log' = <<>>
          /\ p_pc' = "loop"
          /\ t_pc' = "apply"
          /\ UNCHANGED <<call_result, handler>>
       \/ /\ CallReturns(Err(RemoteFailure), "edit_and_apply")
          /\ UNCHANGED <<code_editor_memory, code_editor_files, passes, p_pc,
                         edit_instructions, original_content_lines, edited_lines,
                         edit_index, changes_made, failed_edits, apply_result, edit_log>>
    /\ UNCHANGED <<fs_vars, original_content, call_name, call_input, attempt,
                   instructions, agent_only>>

\* apply_edits has come to its end: the rest of the pass
AfterApplyEdits ==
    /\ t_pc = "apply"
    /\ p_pc \in {"returned", "failed", "panicked"}
    /\ IF p_pc = "panicked"
       THEN /\ t_pc' = "panic"
            /\ UNCHANGED <<call_result, handler, original_content, attempt, instructions>>
       ELSE IF p_pc = "failed"
       THEN /\ CallReturns(Err(apply_result.error), "edit_and_apply")
            /\ UNCHANGED <<original_content, attempt, instructions>>
       ELSE IF apply_result.changes_made /\ apply_result.failed_edits # <<>>
       THEN /\ edit_and_apply_enters
            /\ instructions' = retry_instructions(instructions, apply_result.failed_edits)
            /\ handler' = handler
       ELSE IF apply_result.changes_made
       THEN /\ CallReturns(Ok(<<"Changes applied to", call_input.path>>), "edit_and_apply")
            /\ UNCHANGED <<original_content, attempt, instructions>>
       ELSE IF attempt = max_retries - 1
       THEN /\ CallReturns(Ok(<<"No changes could be applied to", call_input.path>>),
                           "edit_and_apply")
            /\ UNCHANGED <<original_content, attempt, instructions>>
       ELSE /\ attempt' = attempt + 1
            /\ t_pc' = "generate"
            /\ UNCHANGED <<call_result, handler, original_content, instructions>>
    /\ p_pc' = "idle"
    /\ edit_instructions' = <<>>
    /\ original_content_lines' = <<>>
    /\ edited_lines' = <<>>
    /\ edit_index' = 1
    /\ changes_made' = FALSE
    /\ failed_edits' = <<>>
    /\ apply_result' = <<>>
    /\ edit_log' = <<>>
    /\ UNCHANGED <<fs_vars, call_name, call_input, passes, executor_vars, agent_only>>

NextTools ==
    \/ CreateFolder \/ CreateFile \/ ReadFile \/ ListFiles \/ FetchCommitChanges
    \/ UnknownTool \/ EditAndApply \/ GenerateEditInstructions \/ AfterApplyEdits
    \/ EditApplied \/ EditNotFound \/ EditPanics \/ ApplyReturns
SpecTools == InitTools /\ [][NextTools]_vars

(***************************************************************************)
(* ToolExecutor::parse_search_replace_blocks.  The text is a sequence of   *)
(* tokens: the four markers, whitespace and other characters.  The regex   *)
(*   <SEARCH>\s*([\s\S]*?)\s*</SEARCH>\s*<REPLACE>\s*([\s\S]*?)\s*</REPLACE> *)
(* is matched as the regex crate matches it: leftmost match first, a       *)
(* greedy \s* taking all the whitespace, a lazy group ending at the first  *)
(* place from which the rest of the pattern matches.                       *)
(***************************************************************************)
SEARCH_OPEN == "<SEARCH>"
SEARCH_CLOSE == "</SEARCH>"
REPLACE_OPEN == "<REPLACE>"
REPLACE_CLOSE == "</REPLACE>"
Markers == {SEARCH_OPEN, SEARCH_CLOSE, REPLACE_OPEN, REPLACE_CLOSE}

\* \s*literal at i: the position after it, 0 if it does not match
after_literal(t, i, literal) ==
    LET j == skip_whitespace(t, i)
    IN  IF j <= Len(t) /\ t[j] = literal THEN j + 1 ELSE 0

\* the end a lazy group takes among the ends from which the rest matches
lazy_end_longest(ends) == CHOOSE e \in ends : \A d \in ends : d <= e
lazy_end(ends) == CHOOSE e \in ends : \A d \in ends : e <= d

\* \s*([\s\S]*?)\s*</REPLACE> at i: the group and the position after the match
replace_group(t, i) ==
    LET from == skip_whitespace(t, i)
        ends == { f \in from..(Len(t) + 1) : after_literal(t, f, REPLACE_CLOSE) # 0 }
    IN  IF ends = {} THEN [ok |-> FALSE]
        ELSE [ok |-> TRUE, group |-> SubSeq(t, from, lazy_end(ends) - 1),
              end |-> after_literal(t, lazy_end(ends), REPLACE_CLOSE)]

\* \s*</SEARCH>\s*<REPLACE>\s*([\s\S]*?)\s*</REPLACE> at e
rest_of_pattern(t, e) ==
    LET a == after_literal(t, e, SEARCH_CLOSE)
        b == IF a = 0 THEN 0 ELSE after_literal(t, a, REPLACE_OPEN)
    IN  IF b = 0 THEN [ok |-> FALSE] ELSE replace_group(t, b)

\* the whole pattern at i
match_at(t, i) ==
    IF t[i] # SEARCH_OPEN THEN [ok |-> FALSE]
    ELSE LET from == skip_whitespace(t, i + 1)
             ends == { e \in from..(Len(t) + 1) : rest_of_pattern(t, e).ok }
         IN  IF ends = {} THEN [ok |-> FALSE]
             ELSE [ok |-> TRUE,
                   search |-> SubSeq(t, from, lazy_end(ends) - 1),
                   replace |-> rest_of_pattern(t, lazy_end(ends)).group,
                   end |-> rest_of_pattern(t, lazy_end(ends)).end]

\* captures_iter and the map over it: the matches from left to right, none
\* overlapping, each turned into the object of its two trimmed groups
RECURSIVE captures_iter(_, _)
captures_iter(t, i) ==
    IF i > Len(t) THEN <<>>
    ELSE IF match_at(t, i).ok
         THEN << EditInstruction(trim(match_at(t, i).search),
                                 trim(match_at(t, i).replace)) >>
              \o captures_iter(t, match_at(t, i).end)
    ELSE captures_iter(t, i + 1)
parse_search_replace_blocks(text) == captures_iter(text, 1)

(***************************************************************************)
(* SpecExtract: parse_search_replace_blocks applied to texts put together  *)
(* from commentary, well-formed pairs and stray or unpaired blocks.        *)
(***************************************************************************)
MaxSegments == 3   \* SpecExtract: pieces a text is put together from

Commentary(tokens) == [kind |-> "commentary", tokens |-> tokens]
Pair(tokens, search, replace) ==
    [kind |-> "pair", tokens |-> tokens, search |-> search, replace |-> replace]
Malformed(tokens) == [kind |-> "malformed", tokens |-> tokens]
Segments ==
    { Commentary(<<"x">>),
      Commentary(<<" ">>),
      Pair(<<SEARCH_OPEN, "a", SEARCH_CLOSE, REPLACE_OPEN, "b", REPLACE_CLOSE>>,
           <<"a">>, <<"b">>),
      Pair(<<SEARCH_OPEN, "\n", "a", " ", " ", "b", "\n", SEARCH_CLOSE, "\n",
             REPLACE_OPEN, " ", "c", "\n", "d", " ", REPLACE_CLOSE>>,
           <<"a", " ", " ", "b">>, <<"c", "\n", "d">>),
      Pair(<<SEARCH_OPEN, SEARCH_CLOSE, REPLACE_OPEN, REPLACE_CLOSE>>, <<>>, <<>>),
      Malformed(<<SEARCH_OPEN, "m", SEARCH_CLOSE>>),
      Malformed(<<REPLACE_OPEN, "n", REPLACE_CLOSE>>),
      Malformed(<<SEARCH_OPEN>>) }
SegmentLists == UNION { [1..n -> Segments] : n \in 0..MaxSegments }

RECURSIVE TextOfSegments(_)
TextOfSegments(segments) ==
    IF segments = <<>> THEN <<>>
    ELSE Head(segments).tokens \o TextOfSegments(Tail(segments))

InitExtract ==
    /\ conversation_manager = new(HistoryCapacity)
    /\ inserted = <<>>
    /\ last_call = [op |-> "new", pre |-> new(0), ret |-> <<>>]
    /\ AgentInit
    /\ PatchIdle
    /\ ToolsIdle
    /\ x_pc = "called"
    /\ x_segments \in SegmentLists
    /\ x_text = TextOfSegments(x_segments)
    /\ x_blocks = <<>>
    /\ DiffIdle

ParseSearchReplaceBlocks ==
    /\ x_pc = "called"
    /\ x_blocks' = parse_search_replace_blocks(x_text)
    /\ x_pc' = "returned"
    /\ UNCHANGED <<x_segments, x_text, store_vars, pc, main_vars, frame_vars,
                   chat_result, ghost_vars, patch_vars, tools_vars, diff_vars>>

NextExtract == ParseSearchReplaceBlocks
SpecExtract == InitExtract /\ [][NextExtract]_vars

(***************************************************************************)
(* ToolExecutor::generate_and_apply_diff (tools.rs) called on its own with *)
(* any two texts, whatever the file holds, the user typing any line.       *)
(***************************************************************************)
DiffTexts ==
    { <<>>, <<"a">>, <<"a", "\n">>, <<"a", "\n", "b">>, <<"b", "\n", "a">>,
      <<"a", "\n", "b", "\n">> }

InitDiff ==
    /\ conversation_manager = new(HistoryCapacity)
    /\ inserted = <<>>
    /\ last_call = [op |-> "new", pre |-> new(0), ret |-> <<>>]
    /\ AgentInit
    /\ ExtractIdle
    /\ ToolsIdle
    /\ p_pc = "idle"
    /\ file \in DiffTexts
    /\ original_content = <<>>
    /\ edit_instructions = <<>>
    /\ original_content_lines = <<>>
    /\ edited_lines = <<>>
    /\ edit_index = 1
    /\ changes_made = FALSE
    /\ failed_edits = <<>>
    /\ apply_result = <<>>
    /\ edit_log = <<>>
    /\ d_pc = "called"
    /\ d_original \in DiffTexts
    /\ d_new_content \in DiffTexts
    /\ d_input = <<>>
    /\ d_result = <<>>

\* the early return: the ratio is 1.0, nothing is shown or asked
DiffNoChanges ==
    /\ d_pc = "called"
    /\ ratio_is_one(TextDiff(d_original, d_new_content))
    /\ \E o \in generate_and_apply_diff_on(d_original, d_new_content, file, <<>>) :
          /\ d_result' = o
          /\ file' = o.file
    /\ d_pc' = "returned"
    /\ UNCHANGED <<d_original, d_new_content, d_input, store_vars, pc, main_vars,
                   frame_vars, chat_result, ghost_vars, tools_vars, patch_locals,
                   extract_vars>>

\* the diff is shown, the user is asked and types `input`
DiffAsks ==
    /\ d_pc = "called"
    /\ ~ratio_is_one(TextDiff(d_original, d_new_content))
    /\ \E input \in StdinLines :
       \E o \in generate_and_apply_diff_on(d_original, d_new_content, file, input) :
          /\ d_input' = input
          /\ d_result' = o
          /\ file' = o.file
    /\ d_pc' = "returned"
    /\ UNCHANGED <<d_original, d_new_content, store_vars, pc, main_vars,
                   frame_vars, chat_result, ghost_vars, tools_vars, patch_locals,
                   extract_vars>>

NextDiff == DiffNoChanges \/ DiffAsks
SpecDiff == InitDiff /\ [][NextDiff]_vars

(***************************************************************************)
(* Claims about the conversation store, checked under SpecStore.           *)
(***************************************************************************)
Committed == last_call.op = "commit_current_to_history"

\* C1: after commit_current_to_history() current is empty.
C1_CurrentEmptyAfterCommit ==
    Committed => conversation_manager.current = <<>>

\* C2: after commit_current_to_history() the history is a suffix of the old
\* history followed by the old current (the committed messages are at the
\* back, everything in its original order, evictions only from the front),
\* and messages are evicted only when the capacity is exceeded and no more
\* than the capacity demands.
C2_CommitAppendsInOrder ==
    Committed =>
        LET all == last_call.pre.history \o last_call.pre.current
            h == conversation_manager.history
            cap == conversation_manager.max_history_size
        IN  /\ IsSuffix(h, all)
            /\ Len(h) >= Min(Len(all), cap)
            /\ Len(h) < Len(all) => Len(all) > cap

C2_Witness ==
    /\ Committed
    /\ Len(last_call.pre.history) >= 1
    /\ Len(last_call.pre.current) >= 2
    /\ conversation_manager.max_history_size = 2
    /\ conversation_manager.history = last_call.pre.current
    /\ last_call.pre.current[1] # last_call.pre.current[2]

\* C3: for every capacity C, 0 included, the history never holds more than C
\* messages, and after more than C add_to_history calls it holds exactly the
\* last C inserted messages in insertion order.
C3_HistoryBoundedByCapacity ==
    LET cap == conversation_manager.max_history_size
        h == conversation_manager.history
    IN  /\ Len(h) <= cap
        /\ Len(inserted) > cap => h = LastN(inserted, cap)

\* C4: in every reachable state get_combined_conversation() returns history
\* followed by current, each in its stored order.
C4_CombinedIsHistoryThenCurrent ==
    /\ get_combined_conversation(conversation_manager)
         = conversation_manager.history \o conversation_manager.current
    /\ last_call.op = "get_combined_conversation" =>
         last_call.ret = conversation_manager.history \o conversation_manager.current

C4_Witness ==
    /\ last_call.op = "get_combined_conversation"
    /\ Len(conversation_manager.history) = 2
    /\ Len(conversation_manager.current) = 2
    /\ Len(inserted) > 2
    /\ conversation_manager.history[1] # conversation_manager.current[1]
    /\ Len(last_call.ret) = 4

(***************************************************************************)
(* Claims about the agent loop, checked under Spec.                        *)
(***************************************************************************)
SessionReturned == pc = "chat_returned"
Last(seq) == seq[Len(seq)]
SimpleRequests == {i \in DOMAIN sent : sent[i].kind = "simple"}

\* C5: a session whose first response has no tool-use item and carries the
\* completion marker ends after exactly one remote request.
C5_OneRequestWhenComplete ==
    ( /\ SessionReturned
      /\ rate_limited = 0
      /\ received # <<>>
      /\ ~received[1].tool_use
      /\ contains(received[1].text, CONTINUATION_EXIT_PHRASE) )
    => Len(sent) = 1

\* C6: k rate-limit failures of the initial request cost exactly k delays of
\* 5 seconds and k re-sends of the same prompt, and never make
\* chat_with_claude return the rate-limit failure as its error.
C6_InitialRateLimitRetried ==
    /\ slept_secs = RetryDelaySecs * (IF pc = "sleep" THEN rate_limited - 1 ELSE rate_limited)
    /\ \A i \in SimpleRequests :
          sent[i].messages =
              conversation_manager.history \o <<Message("user", Text(prompt))>>
    /\ pc \in {"process", "await_tool", "chat_returned"} =>
          Cardinality(SimpleRequests) = rate_limited + 1
    /\ ( /\ SessionReturned
         /\ ~chat_result.ok
         /\ to_string(chat_result.error) = <<"Failed to execute query with tools">> )
       => ~contains(root_cause(chat_result.error), RateLimitPhrase)

C6_Witness ==
    /\ SessionReturned
    /\ chat_result.ok
    /\ rate_limited = 2
    /\ slept_secs = 2 * RetryDelaySecs
    /\ Cardinality(SimpleRequests) = 3

\* C7: a rate-limit failure of any request of a session, the initial one or
\* one sent after a tool round, never ends the session with an error.
C7_RateLimitNeverFatal ==
    (SessionReturned /\ ~chat_result.ok)
    => ~contains(root_cause(chat_result.error), RateLimitPhrase)

\* C8: when a later tool call of a response fails, the results of the earlier
\* tool calls of that response that succeeded are in current when the session
\* ends with the error.
ToolResultInCurrent(id) ==
    \E k \in DOMAIN conversation_manager.current :
        LET m == conversation_manager.current[k] IN
        /\ m.content.variant = "ToolUseUser"
        /\ m.content.blocks[1].tool_use_id = id
C8_PartialToolResultsKept ==
    (SessionReturned /\ ~chat_result.ok)
    => \A i, j \in DOMAIN executed :
          ( /\ i < j
            /\ executed[i].round = executed[j].round
            /\ executed[i].ok
            /\ ~executed[j].ok )
          => ToolResultInCurrent(executed[i].id)

\* C9: chat_with_claude returns the text of the most recently received
\* response.
C9_ReturnsLatestText ==
    (SessionReturned /\ chat_result.ok)
    => chat_result.text = Last(received).text

\* C10: when the text of the last received response of a session contains the
\* completion marker, main does not ask for another command after that session.
C10_MarkerStopsLoop ==
    [][ ( /\ SessionReturned
          /\ received # <<>>
          /\ contains(Last(received).text, CONTINUATION_EXIT_PHRASE) )
        => pc' # "main_command" ]_vars

\* C11: without rate-limit failures a session has at most two tool rounds:
\* chat_with_claude sends at most three requests, and after the third
\* request it only waits for the answer and returns.
C11_AtMostTwoToolRounds ==
    /\ round <= 2
    /\ Len(sent) <= rate_limited + 3
    /\ \A i \in DOMAIN executed : executed[i].round \in {1, 2}
    /\ Len(sent) = rate_limited + 3 => pc \in {"await_tool", "chat_returned"}

C11_Witness ==
    /\ SessionReturned
    /\ chat_result.ok
    /\ rate_limited = 0
    /\ Len(sent) = 3
    /\ Last(received).tool_use

\* C12: in current every tool result is a pair of adjacent messages, an
\* assistant tool-use message directly followed by the user tool-result
\* message with the same id, and the pairs are in the order the tools were
\* requested.
IsToolUse(m) == m.role = "assistant" /\ m.content.variant = "ToolUseAssistant"
IsToolResult(m) == m.role = "user" /\ m.content.variant = "ToolUseUser"
C12_ToolPairsAdjacent ==
    LET cur == conversation_manager.current IN
    /\ \A k \in DOMAIN cur :
        /\ IsToolUse(cur[k]) =>
              /\ k + 1 \in DOMAIN cur
              /\ IsToolResult(cur[k + 1])
              /\ cur[k + 1].content.blocks[1].tool_use_id = cur[k].content.blocks[1].id
        /\ IsToolResult(cur[k]) =>
              /\ k - 1 \in DOMAIN cur
              /\ IsToolUse(cur[k - 1])
              /\ cur[k - 1].content.blocks[1].id = cur[k].content.blocks[1].tool_use_id
    /\ \A k, l \in DOMAIN cur :
          (k < l /\ IsToolUse(cur[k]) /\ IsToolUse(cur[l]))
          => cur[k].content.blocks[1].id < cur[l].content.blocks[1].id

C12_Witness ==
    /\ pc = "await_tool"
    /\ round = 2
    /\ Len(conversation_manager.current) = 7
    /\ IsToolUse(conversation_manager.current[2])
    /\ IsToolUse(conversation_manager.current[4])
    /\ IsToolUse(conversation_manager.current[6])

C14_InitialRequestIsPromptOnly ==
    pc = "await_simple" =>
        /\ conversation_manager.current = <<Message("user", Text(prompt))>>
        /\ Last(sent).kind = "simple"
        /\ Last(sent).messages =
              conversation_manager.history \o conversation_manager.current

C14_Witness ==
    /\ pc = "await_simple"
    /\ iteration = 1
    /\ rate_limited = 2
    /\ Len(sent) = 3

(***************************************************************************)
(* Claims about apply_edits, checked under SpecPatch.                      *)
(***************************************************************************)
\* the search block of `edit` occurs in v at offset o (from 0): it has lines,
\* and each equals the line of v at its position once both are normalised
BlockMatchesAt(v, block, o) ==
    /\ Len(block) >= 1
    /\ o \in 0..(Len(v) - Len(block))
    /\ \A j \in 1..Len(block) : normalize_whitespace(v[o + j]) = block[j]
NormalizedBlock(edit) ==
    LET block == lines(edit.search)
    IN  [j \in 1..Len(block) |-> normalize_whitespace(block[j])]
MatchesAt(v, edit, o) == BlockMatchesAt(v, NormalizedBlock(edit), o)
HasMatch(v, edit) ==
    LET block == NormalizedBlock(edit)
    IN  \E o \in 0..Len(v) : BlockMatchesAt(v, block, o)
Returned == p_pc = "returned"

\* C15: the k-th iteration takes the k-th instruction of the list, and it is
\* matched against the content the earlier iterations left: the content of
\* the call for the first, the result of the previous iteration otherwise
C15_EditsInOrderOnCurrentContent ==
    \A k \in DOMAIN edit_log :
        /\ edit_log[k].index = k
        /\ edit_log[k].edit = edit_instructions[k]
        /\ edit_log[k].before =
               IF k = 1 THEN lines(original_content) ELSE edit_log[k - 1].after
        /\ edit_log[k].applied => MatchesAt(edit_log[k].before, edit_log[k].edit,
                                            edit_log[k].start)
        /\ ~edit_log[k].applied => ~HasMatch(edit_log[k].before, edit_log[k].edit)
\* a second instruction applied to lines that only the first one introduced
C15_Witness ==
    /\ Returned
    /\ Len(edit_log) = 2
    /\ edit_log[1].applied
    /\ edit_log[2].applied
    /\ edit_log[2].edit # edit_log[1].edit
    /\ ~HasMatch(lines(original_content), edit_log[2].edit)

RECURSIVE terminated_acc(_, _, _)
terminated_acc(s, acc, cur) ==
    IF s = <<>> THEN (IF cur = <<>> THEN acc ELSE Append(acc, cur))
    ELSE IF Head(s) = "\n"
         THEN terminated_acc(Tail(s), Append(acc, Append(cur, "\n")), <<>>)
    ELSE terminated_acc(Tail(s), acc, Append(cur, Head(s)))
TerminatedLines(s) == terminated_acc(s, <<>>, <<>>)

\* `text` with the n lines from offset `start` replaced by the lines of
\* `replace`: the bytes before and after the run are kept, and the run's
\* last terminator ends the replacement
ReplaceRun(text, start, n, replace) ==
    LET pieces == TerminatedLines(text)
        run_end == pieces[start + n]
        terminator == IF run_end[Len(run_end)] = "\n" THEN NL ELSE <<>>
    IN  join(SubSeq(pieces, 1, start), <<>>)
        \o (IF lines(replace) = <<>> THEN <<>> ELSE join(lines(replace), NL) \o terminator)
        \o join(SubSeq(pieces, start + n + 1, Len(pieces)), <<>>)

\* the text the first k iterations should have produced
RECURSIVE ExpectedContent(_)
ExpectedContent(k) ==
    IF k = 0 THEN original_content
    ELSE IF edit_log[k].applied
         THEN ReplaceRun(ExpectedContent(k - 1), edit_log[k].start,
                         Len(lines(edit_log[k].edit.search)), edit_log[k].edit.replace)
    ELSE ExpectedContent(k - 1)

\* C17: when instructions were applied, the content apply_edits returns and
\* leaves in the file is the original text with each matched run replaced by
\* the replacement lines, every other byte kept, line terminators and the
\* final newline included
C17_OnlyMatchedLinesReplaced ==
    (Returned /\ apply_result.changes_made) =>
        /\ apply_result.edited_content = ExpectedContent(Len(edit_log))
        /\ file = ExpectedContent(Len(edit_log))

\* C18: an iteration whose search block is not found returns the working
\* content as it got it, the loop goes on to the next instruction (each logged
\* instruction is followed by the next in the list until the call returns,
\* and a returned call has gone through the whole list), and an instruction
\* taken after a miss is applied when its own block occurs
C18_MissDoesNotStopBatch ==
    /\ \A k \in DOMAIN edit_log :
         ~edit_log[k].applied =>
            /\ edit_log[k].after = edit_log[k].before
            /\ edit_index > k
            /\ \A m \in (k + 1)..Len(edit_log) :
                 /\ edit_log[m].edit = edit_instructions[m]
                 /\ HasMatch(edit_log[m].before, edit_log[m].edit) => edit_log[m].applied
    /\ Returned => Len(edit_log) = Len(edit_instructions)
    /\ (p_pc = "loop" /\ edit_log # <<>> /\ ~edit_log[Len(edit_log)].applied) =>
          edited_lines = edit_log[Len(edit_log)].before
\* a call that returned after a miss followed by an applied instruction
C18_Witness ==
    /\ Returned
    /\ Len(edit_log) = 2
    /\ ~edit_log[1].applied
    /\ edit_log[2].applied
    /\ edit_log[2].before = lines(original_content)
    /\ apply_result.edited_content = join(edit_log[2].after, NL)

\* C19: the flag apply_edits returns is true exactly when at least one
\* instruction of the list was applied
C19_ChangesMadeIffSomeApplied ==
    Returned =>
        (apply_result.changes_made <=> \E k \in DOMAIN edit_log : edit_log[k].applied)
\* a returned call whose first instruction was applied and whose last was not
C19_Witness ==
    /\ Returned
    /\ Len(edit_log) = 2
    /\ edit_log[1].applied
    /\ ~edit_log[2].applied
    /\ apply_result.changes_made

\* the entries the report should hold for the iterations from k on
RECURSIVE ExpectedEntries(_)
ExpectedEntries(k) ==
    IF k > Len(edit_log) THEN <<>>
    ELSE IF edit_log[k].applied THEN ExpectedEntries(k + 1)
    ELSE << <<"Edit ", ToString(k), ": ">> \o edit_instructions[k].search >>
         \o ExpectedEntries(k + 1)

\* C20: the report apply_edits returns is made of one entry per instruction
\* that was not applied, in list order, each giving the instruction's
\* position counted from 1 and its search text as it was given
C20_ReportListsMissesInOrder ==
    Returned => apply_result.failed_edits = join(ExpectedEntries(1), NL)
\* a returned call with two misses, the first with a search text that
\* normalisation would change
C20_Witness ==
    /\ Returned
    /\ Len(edit_log) = 2
    /\ ~edit_log[1].applied
    /\ ~edit_log[2].applied
    /\ normalize_whitespace(edit_log[1].edit.search) # edit_log[1].edit.search
    /\ apply_result.failed_edits # <<>>

\* no instruction of the list has an occurrence in the content of the call
NoInstructionMatches ==
    \A k \in DOMAIN edit_instructions :
        ~HasMatch(lines(original_content), edit_instructions[k])
RECURSIVE AllEntries(_)
AllEntries(k) ==
    IF k > Len(edit_instructions) THEN <<>>
    ELSE << <<"Edit ", ToString(k), ": ">> \o edit_instructions[k].search >>
         \o AllEntries(k + 1)
\* C21: when no instruction of the list occurs in the content, the file stays
\* the file of before the call in every state of the call, its return or
\* failure included, and a call that returns reports every instruction of
\* the list as failed
C21_NoMatchNoWrite ==
    /\ file # original_content => ~NoInstructionMatches
    /\ (Returned /\ NoInstructionMatches) =>
             /\ ~apply_result.changes_made
             /\ apply_result.failed_edits = join(AllEntries(1), NL)
\* a returned call of two instructions, none found, on a file whose text
\* differs from its lines joined again
C21_Witness ==
    /\ Returned
    /\ Len(edit_instructions) = 2
    /\ NoInstructionMatches
    /\ original_content # join(lines(original_content), NL)
    /\ file = original_content

\* C22: when the user declined every diff the call showed, the file is, when
\* the call returns, the file of before the call
AllDeclined ==
    \A k \in DOMAIN edit_log : edit_log[k].applied => edit_log[k].answer = "n"
C22_DeclinedChangeNotWritten ==
    (Returned /\ AllDeclined) => file = original_content

(***************************************************************************)
(* Claims about execute_tool and edit_and_apply, checked under SpecTools.  *)
(***************************************************************************)
\* C23: one edit_and_apply tool call makes at most max_retries passes of
\* generating instructions and applying them
C23_PassesBoundedByMaxRetries == passes <= max_retries

\* C24: a call of create_folder, create_file, read_file, edit_and_apply or
\* fetch_commit_changes whose input lacks an argument the tool's schema
\* requires returns an error in the step it is made, without running the
\* tool's handler and without changing the file system
SchemaChecked ==
    {"create_folder", "create_file", "read_file", "edit_and_apply", "fetch_commit_changes"}
C24_MissingArgumentRejected ==
    [][ ( /\ t_pc \in {"idle", "done"}
          /\ call_name' \in SchemaChecked
          /\ ~(Required(call_name') \subseteq DOMAIN call_input') )
        => ( /\ t_pc' = "done"
             /\ ~call_result'.ok
             /\ handler' = "none"
             /\ UNCHANGED fs_vars ) ]_vars

\* C25: a call whose name is not a name execute_tool knows returns the
\* "Unknown tool" error in the step it is made, runs no handler and leaves
\* the file system and the executor's fields as they were
C25_UnknownToolRejected ==
    [][ ( /\ t_pc \in {"idle", "done"}
          /\ call_name' \notin KnownTools
          /\ call_name' # "none" )
        => ( /\ t_pc' = "done"
             /\ call_result' = Err(<< <<"Unknown tool:", call_name'>> >>)
             /\ handler' = "none"
             /\ UNCHANGED <<fs_vars, executor_vars>> ) ]_vars
\* a call of search_file, a name TOOLS offers and execute_tool does not know,
\* has returned the error after an edit_and_apply call left the executor with
\* memory
C25_Witness ==
    /\ t_pc = "done"
    /\ call_name = "search_file"
    /\ call_input # <<>>
    /\ ~call_result.ok
    /\ handler = "none"
    /\ file_exists
    /\ code_editor_memory # <<>>

(***************************************************************************)
(* Further claims about apply_edits, checked under SpecPatch.              *)
(***************************************************************************)
\* C26: when a file operation of apply_edits fails the call ends there with
\* the error as its result, not a success; the iterations finished are those
\* before the instruction at which it failed, and nothing of the call's state
\* changes afterwards
C26_IoFailureAborts ==
    [][ /\ p_pc' = "failed" =>
            /\ ~apply_result'.ok
            /\ apply_result'.error = IoError
            /\ Len(edit_log') = edit_index' - 1
        /\ p_pc = "failed" => UNCHANGED patch_vars ]_vars
\* a call that failed after it had written the file for its first
\* instruction, with its second instruction never taken
C26_Witness ==
    /\ p_pc = "failed"
    /\ ~apply_result.ok
    /\ Len(edit_instructions) = 2
    /\ edit_index = 1
    /\ edit_log = <<>>
    /\ file # original_content

(***************************************************************************)
(* Claims about parse_search_replace_blocks, checked under SpecExtract.    *)
(***************************************************************************)
\* the instructions of the pairs among `segments`, in order
RECURSIVE PairsOf(_)
PairsOf(segments) ==
    IF segments = <<>> THEN <<>>
    ELSE (IF Head(segments).kind = "pair"
          THEN << EditInstruction(Head(segments).search, Head(segments).replace) >>
          ELSE <<>>)
         \o PairsOf(Tail(segments))
WellFormed == \A k \in DOMAIN x_segments : x_segments[k].kind \in {"commentary", "pair"}

\* C27: for a text made of well-formed pairs and commentary the extractor
\* returns one instruction per pair, in the order of the text, with the
\* pair's search and replace text trimmed at both ends and otherwise as
\* written; for a text without pairs it returns the empty list
C27_PairsExtractedInOrder ==
    (x_pc = "returned" /\ WellFormed) => x_blocks = PairsOf(x_segments)
\* two different pairs with commentary between them, both extracted
C27_Witness ==
    /\ x_pc = "returned"
    /\ WellFormed
    /\ Len(x_segments) = 3
    /\ x_segments[1].kind = "pair"
    /\ x_segments[2].kind = "commentary"
    /\ x_segments[3].kind = "pair"
    /\ x_segments[1] # x_segments[3]
    /\ Len(x_blocks) = 2
    /\ x_blocks[1].search # x_blocks[2].search

\* C28: unpaired blocks and stray markers are left out: no marker is part of
\* the search or replace text of a returned instruction
HasMarker(s) == \E i \in DOMAIN s : s[i] \in Markers
C28_MalformedSkipped ==
    x_pc = "returned" =>
        \A k \in DOMAIN x_blocks :
            ~HasMarker(x_blocks[k].search) /\ ~HasMarker(x_blocks[k].replace)

(***************************************************************************)
(* Further claims about the conversation store, checked under SpecStore.   *)
(***************************************************************************)
\* C29: add_to_current, clear_current and get_combined_conversation leave
\* history as it was; add_to_current leaves current as it was with one
\* message appended, however long it is; add_to_history and
\* commit_current_to_history leave a history that is an end piece of the
\* previous history followed by the messages added.  The capacity never
\* changes.
C29_HistoryOnlyAppendedAndEvicted ==
    LET pre == last_call.pre
        cm == conversation_manager
    IN  /\ last_call.op \in {"add_to_current", "clear_current", "get_combined_conversation"}
             => cm.history = pre.history
        /\ last_call.op = "add_to_current"
             => /\ Len(cm.current) = Len(pre.current) + 1
                /\ SubSeq(cm.current, 1, Len(pre.current)) = pre.current
                /\ Last(cm.current) \in StoreMessages
        /\ last_call.op = "add_to_history"
             => IsSuffix(cm.history, Append(pre.history, Last(inserted)))
        /\ last_call.op = "commit_current_to_history"
             => IsSuffix(cm.history, pre.history \o pre.current)
        /\ last_call.op # "new" => cm.max_history_size = pre.max_history_size
\* add_to_current has made current longer than the capacity, with a full
\* history beside it
C29_Witness ==
    /\ last_call.op = "add_to_current"
    /\ Len(conversation_manager.current) > conversation_manager.max_history_size
    /\ conversation_manager.max_history_size >= 1
    /\ Len(conversation_manager.history) = conversation_manager.max_history_size


(***************************************************************************)
(* Further claims about the agent loop, checked under Spec.                *)
(***************************************************************************)

\* C30: in every message of the agent's conversation (history and current)
\* the content variant matches the role: a message of tool-use blocks has
\* role assistant and only tool_use blocks, a message of tool-result blocks
\* has role user and only tool_result blocks, a text message is a prompt with
\* role user, and after ask_claude_simple the first message of current is the
\* prompt as a user text message.
VariantMatchesRole(m) ==
    /\ m.role \in {"user", "assistant"}
    /\ m.content.variant \in {"Text", "ToolUseAssistant", "ToolUseUser"}
    /\ m.content.variant = "ToolUseAssistant"
         => /\ m.role = "assistant"
            /\ \A k \in DOMAIN m.content.blocks : m.content.blocks[k].type = "tool_use"
    /\ m.content.variant = "ToolUseUser"
         => /\ m.role = "user"
            /\ \A k \in DOMAIN m.content.blocks : m.content.blocks[k].type = "tool_result"
    /\ m.content.variant = "Text"
         => /\ m.role = "user"
            /\ m.content.text \in Prompts
C30_VariantMatchesRole ==
    LET all == conversation_manager.history \o conversation_manager.current IN
    /\ \A k \in DOMAIN all : VariantMatchesRole(all[k])
    /\ pc \in {"await_simple", "await_tool"}
         => /\ conversation_manager.current # <<>>
            /\ conversation_manager.current[1] = Message("user", Text(prompt))

C30_Witness ==
    /\ pc = "await_tool"
    /\ round = 2
    /\ Len(conversation_manager.current) >= 5
    /\ conversation_manager.current[1].content.variant = "Text"
    /\ conversation_manager.current[2].content.variant = "ToolUseAssistant"
    /\ conversation_manager.current[3].content.variant = "ToolUseUser"


(***************************************************************************)
(* Claims about generate_and_apply_diff, checked under SpecDiff.           *)
(***************************************************************************)

\* C31: for identical original and candidate text the diff has ratio 1.0 and
\* no inserted and no deleted line, and the call returns "No changes
\* detected." without asking the user and without writing the file.
C31_IdenticalTextsNoChanges ==
    [][(d_pc = "called" /\ d_original = d_new_content)
         => /\ ratio_is_one(TextDiff(d_original, d_new_content))
            /\ TextDiff(d_original, d_new_content).inserted = 0
            /\ TextDiff(d_original, d_new_content).deleted = 0
            /\ d_pc' = "returned"
            /\ d_result'.result = Ok(<<"No changes detected.">>)
            /\ ~d_result'.prompted
            /\ d_input' = <<>>
            /\ file' = file]_vars

C31_Witness ==
    /\ d_pc = "returned"
    /\ d_original = d_new_content
    /\ Len(split_inclusive(d_original)) = 2
    /\ file # d_original
    /\ d_result.result = Ok(<<"No changes detected.">>)


\* C34: when no file or terminal operation fails, generate_and_apply_diff
\* writes new_content to the file if and only if the diff has an inserted or a
\* deleted line and the typed line, trimmed and lower-cased, is "y"; in every
\* other case the file is left as it was; the result is never an error.
DiffNonEmpty ==
    TextDiff(d_original, d_new_content).inserted
        + TextDiff(d_original, d_new_content).deleted > 0
C34_WritesIffChangedAndYes ==
    [][(d_pc = "called" /\ d_result'.ok)
         => /\ d_result'.result.ok
            /\ IF DiffNonEmpty /\ to_lowercase(trim(d_input')) = <<"y">>
               THEN /\ file' = d_new_content
                    /\ d_result'.prompted
               ELSE file' = file]_vars

C34_Witness ==
    /\ d_pc = "returned"
    /\ d_result.ok
    /\ d_input = <<" ", "Y", " ", "\n">>
    /\ file = d_new_content
    /\ d_original # d_new_content
    /\ d_result.result.text[1] = "Changes applied to "


(***************************************************************************)
(* Claims about main's loop, checked under SpecMain.                       *)
(***************************************************************************)

\* C32: main runs at most MAX_CONTINUATION_ITERATIONS sessions: a session,
\* the (iteration + 1)-th, is started or has just returned only while
\* iteration + 1 is at most the limit.
C32_SessionsBoundedByLimit ==
    pc \in {"ask_simple", "chat_returned"} => iteration + 1 <= MAX_CONTINUATION_ITERATIONS


(***************************************************************************)
(* Further claims about edit_and_apply, checked under SpecTools.           *)
(***************************************************************************)

\* C33: when apply_edits has returned, edit_and_apply starts a retry pass,
\* with the instructions of the pass followed by the report of the failed
\* edits, exactly when the pass found the search block of at least one
\* instruction and did not find that of at least one other (the retry begins
\* by reading the file, which may fail); in every other case the tool call
\* ends there with a result that is not an error.
PassApplied == \E k \in DOMAIN edit_log : edit_log[k].applied
PassUnmatched == \E k \in DOMAIN edit_log : ~edit_log[k].applied
C33_RetryIffAppliedAndUnmatched ==
    [][(t_pc = "apply" /\ p_pc = "returned")
         => IF PassApplied /\ PassUnmatched
            THEN /\ instructions' =
                        instructions
                        \o <<"\n\nPlease retry the following edits that could not be applied:\n">>
                        \o join(failed_edits, NL)
                 /\ \/ /\ t_pc' = "generate"
                       /\ attempt' = 0
                       /\ original_content' = file
                    \/ /\ t_pc' = "done"            \* the retry cannot read the file
                       /\ call_result' = Err(IoError)
            ELSE /\ t_pc' = "done"
                 /\ call_result'.ok
                 /\ instructions' = instructions]_vars

C33_Witness ==
    /\ t_pc = "generate"
    /\ passes = 1
    /\ Len(instructions) > 1
    /\ file # <<>>


(***************************************************************************)
(* Further claims about apply_edits, checked under SpecPatch.              *)
(***************************************************************************)

\* C35: whenever an iteration of apply_edits finds a match, the range it
\* splices out, start_index..=end_index, is a valid range of at least one
\* line (start_index <= end_index < number of lines), whatever the search
\* text of the instruction is, and no instruction crashes the call.
C35_SpliceRangeValid ==
    /\ p_pc # "panicked"
    /\ InLoop =>
         LET search_lines == search_lines_of(edit_at(edit_index))
             start_index == find_match(edited_lines, search_lines, 0)
             end_index == start_index + Len(search_lines) - 1
         IN  start_index # NoMatch
               => /\ start_index <= end_index
                  /\ end_index < Len(edited_lines)


(***************************************************************************)
(* Further claims about execute_tool, checked under SpecTools.             *)
(***************************************************************************)

\* C36: no call of a tool whose name is in the TOOLS table returns the
\* "Unknown tool" error.
C36_AdvertisedToolsAccepted ==
    (t_pc = "done" /\ call_name \in TOOLS)
        => call_result # Err(<< <<"Unknown tool:", call_name>> >>)


(***************************************************************************)
(* A further claim about the conversation store, checked under SpecStore.  *)
(***************************************************************************)

\* C37: after a commit_current_to_history() made while the history had room
\* for all of current, get_combined_conversation() returns the sequence it
\* returned before the commit.
C37_CommitKeepsCombinedView ==
    ( /\ Committed
      /\ Len(last_call.pre.history) + Len(last_call.pre.current)
            <= last_call.pre.max_history_size )
    => get_combined_conversation(conversation_manager)
         = get_combined_conversation(last_call.pre)


(***************************************************************************)
(* Further claims about chat_with_claude, checked under Spec.              *)
(***************************************************************************)

\* C38: in a session every tool execution comes after the last request that
\* was rate limited and retried, no tool-use request is executed twice, and
\* no tool-use message (with its tool-result message) is twice in current.
Retried(i) ==
    /\ sent[i].outcome = "rate_limited"
    /\ (i < Len(sent) \/ pc \in {"sleep", "ask_simple"})
C38_NoToolReExecutedByRetry ==
    /\ \A k \in DOMAIN executed : \A i \in DOMAIN sent :
          Retried(i) => i < executed[k].requests
    /\ \A k, l \in DOMAIN executed : k # l => executed[k].id # executed[l].id
    /\ LET cur == conversation_manager.current IN
       \A k, l \in DOMAIN cur :
          (k # l /\ IsToolUse(cur[k]) /\ IsToolUse(cur[l]))
            => cur[k].content.blocks[1].id # cur[l].content.blocks[1].id

C38_Witness ==
    /\ pc = "await_tool"
    /\ round = 2
    /\ slept_secs = 2 * RetryDelaySecs
    /\ Len(executed) >= 2
    /\ Len(sent) = 5
    /\ Retried(1) /\ Retried(2)
    /\ \E k \in DOMAIN conversation_manager.current :
          IsToolUse(conversation_manager.current[k])


\* C39: when apply_edits has returned Ok with changes_made true, the file on
\* disk is the content the call returned, whatever was answered at the
\* prompts.
C39_DiskEqualsReturnedContent ==
    (Returned /\ apply_result.ok /\ apply_result.changes_made)
        => file = apply_result.edited_content

C39_Witness ==
    /\ Returned
    /\ apply_result.ok
    /\ apply_result.changes_made
    /\ Len(edit_log) = 2
    /\ edit_log[1].applied /\ edit_log[1].answer = "n"
    /\ edit_log[2].applied /\ edit_log[2].answer = "y"
    /\ file # original_content
    /\ file = apply_result.edited_content


(***************************************************************************)
(* A claim about the termination of a session, checked under SpecLive.     *)
(***************************************************************************)

\* C40: when the service rate-limits the first request only finitely often
\* and every request and every tool call returns, a session that has started
\* eventually ends: chat_with_claude returns a response text or an error.
SessionEnded ==
    /\ pc = "chat_returned"
    /\ chat_result.ok \/ chat_result.error # <<>>
C40_SessionTerminates == (pc = "ask_simple") ~> SessionEnded

C40_Witness ==
    /\ SessionEnded
    /\ chat_result.ok
    /\ rate_limited = MaxRetries
    /\ Len(executed) >= 2
    /\ Len(sent) = MaxRetries + 3

=============================================================================
